---- MODULE Spec2Model ----
(***************************************************************************)
(* Schema translation engine of the Solr -> OpenSearch migration tool.     *)
(*                                                                         *)
(* Strings that the code takes apart (construct names and class names) are *)
(* sequences of atoms.  The atoms form a prefix-free code, so every string *)
(* has exactly one decomposition, and every needle the code searches for   *)
(* starts with an upper-case letter that only begins an atom: substring    *)
(* search on characters and on atoms agree.                                *)
(***************************************************************************)
EXTENDS Integers, Sequences, FiniteSets, TLC

VARIABLES
    nameCall,        \* one call of _get_tokenizer_name / _get_filter_name
    copyFields,      \* CopyFieldHelper and the copy-field orchestration loop
    opensearch_packages,  \* the package service: package name -> its status
    s3_objects,      \* the bucket: object key -> ETag
    package_files,   \* local package files: path -> content
    last,            \* the last call: its input, outcome and remote calls
    _filter_map,     \* FilterHelper._filter_map
    _tokenizer_map,  \* TokenizerHelper._tokenizer_map
    _packages_map,   \* FilterHelper._packages_map
    _migration_config,  \* the run's settings
    _field_types_map,   \* FieldTypeHelper._field_types_map
    polling,         \* one package lifecycle operation and its status polling
    migration,       \* Solr2OSMigrate.migrate_schema: its loops and lists
    export           \* Solr2OSMigrate._export_regular_data: one export

remote == <<opensearch_packages, s3_objects, package_files, last>>

helpers == <<_filter_map, _tokenizer_map, _packages_map, _migration_config,
             _field_types_map>>

drivers == <<polling, migration, export>>

vars == <<nameCall, copyFields, opensearch_packages, s3_objects, package_files, last,
          _filter_map, _tokenizer_map, _packages_map, _migration_config,
          _field_types_map, polling, migration, export>>

DriversOff ==
    /\ polling = [op |-> "off"]
    /\ migration = [phase |-> "off"]
    /\ export = [phase |-> "off"]

(***************************************************************************)
(* Strings                                                                 *)
(***************************************************************************)
\* str.lower() on one atom
LowerAtom(a) ==
    CASE a = "Std" -> "std"
      [] a = "Token" -> "token"
      [] a = "Filter" -> "filter"
      [] a = "Char" -> "char"
      [] a = "Factory" -> "factory"
      [] a = "Lower" -> "lower"
      [] a = "Stop" -> "stop"
      [] a = "Syn" -> "syn"
      [] a = "Graph" -> "graph"
      [] a = "Foo" -> "foo"
      [] a = "Html" -> "html"
      [] a = "Strip" -> "strip"
      [] a = "Map" -> "map"
      [] a = "White" -> "white"
      [] OTHER -> a

\* str.lower()
Lower(s) == [i \in 1..Len(s) |-> LowerAtom(s[i])]

\* position of the first occurrence of needle in s, 0 when there is none
Find(needle, s) ==
    LET hits == {i \in 1..(Len(s) - Len(needle) + 1) :
                    SubSeq(s, i, i + Len(needle) - 1) = needle}
    IN IF hits = {} THEN 0 ELSE CHOOSE i \in hits : \A j \in hits : i <= j

\* needle in s
Contains(needle, s) == Find(needle, s) # 0

\* s.split(needle)[0]
BeforeFirst(needle, s) ==
    IF Contains(needle, s) THEN SubSeq(s, 1, Find(needle, s) - 1) ELSE s

\* s.split(".")
RECURSIVE SplitDot(_)
SplitDot(s) ==
    LET d == Find(<<".">>, s)
    IN IF d = 0 THEN <<s>>
       ELSE <<SubSeq(s, 1, d - 1)>> \o SplitDot(SubSeq(s, d + 1, Len(s)))

TokenizerFactory == <<"Token", "izer", "Factory">>
TokenFilterFactory == <<"Token", "Filter", "Factory">>
CharFilterFactory == <<"Char", "Filter", "Factory">>
FilterFactory == <<"Filter", "Factory">>

(***************************************************************************)
(* Name resolution.  A construct definition is a function from its keys to *)
(* their values; dict.get(key) is None exactly when the key is absent.     *)
(* A result is [ok |-> TRUE, val |-> name] or [ok |-> FALSE, err |-> e].   *)
(***************************************************************************)
Has(d, k) == k \in DOMAIN d

\* d[key] = value on a dict
SetAttr(def, key, value) ==
    [k \in DOMAIN def \cup {key} |-> IF k = key THEN value ELSE def[k]]

EmptyMap == [k \in {} |-> 0]

Ok(v) == [ok |-> TRUE, val |-> v]

Raise(e) == [ok |-> FALSE, err |-> e]

\* the raw errors of solr_config.get("class").split(".")[1]
ClassSegment(config) ==
    IF ~Has(config, "class") THEN Raise("AttributeError")
    ELSE IF Len(SplitDot(config["class"])) < 2 THEN Raise("IndexError")
    ELSE Ok(SplitDot(config["class"])[2])

_get_tokenizer_name(solr_tokenizer_config) ==
    IF Has(solr_tokenizer_config, "name") THEN Ok(Lower(solr_tokenizer_config["name"]))
    ELSE LET seg == ClassSegment(solr_tokenizer_config)
         IN IF ~seg.ok THEN seg
            ELSE IF Contains(TokenizerFactory, seg.val)
                 THEN Ok(Lower(BeforeFirst(TokenizerFactory, seg.val)))
                 ELSE seg

_get_filter_name(filter_config) ==
    IF Has(filter_config, "name") THEN Ok(Lower(filter_config["name"]))
    ELSE LET seg == ClassSegment(filter_config)
         IN IF ~seg.ok THEN seg
            ELSE IF Contains(TokenFilterFactory, seg.val)
                 THEN Ok(Lower(BeforeFirst(TokenFilterFactory, seg.val)))
            ELSE IF Contains(CharFilterFactory, seg.val)
                 THEN Ok(Lower(BeforeFirst(CharFilterFactory, seg.val)))
            ELSE IF Contains(FilterFactory, seg.val)
                 THEN Ok(Lower(BeforeFirst(FilterFactory, seg.val)))
            ELSE seg

(***************************************************************************)
(* Specification of name resolution alone: one definition, one call.       *)
(***************************************************************************)
MaxSegments == 3

\* the segments a class name is made of
Segments ==
    { <<"solr">>, <<"org">>, <<"Std">>,
      <<"Std">> \o TokenizerFactory,
      <<"Std">> \o FilterFactory,
      <<"Std">> \o TokenFilterFactory,
      <<"Std">> \o CharFilterFactory }

RECURSIVE JoinDot(_)
JoinDot(segs) ==
    IF Len(segs) = 1 THEN segs[1]
    ELSE segs[1] \o <<".">> \o JoinDot(Tail(segs))

\* class names as the source schema writes them: a package path and a class
ClassNames ==
    { JoinDot(segs) : segs \in UNION { [1..n -> Segments] : n \in 2..MaxSegments } }

ExplicitNames == { <<"std">>, <<"Std">>, <<"Std">> \o TokenizerFactory }

NameConfigs ==
    { [k \in {"class"} |-> c] : c \in ClassNames }
    \cup { [k \in {"name"} |-> n] : n \in ExplicitNames }
    \cup { [k \in {"name", "class"} |-> IF k = "name" THEN n ELSE c] :
             n \in ExplicitNames, c \in {<<"solr", ".", "Std", "Filter", "Factory">>} }

(***************************************************************************)
(* Exceptions                                                              *)
(***************************************************************************)
MAPPING_NOT_FOUND == "Implementation not available."

CopyFieldMappingException(name, message, src_field) ==
    [type |-> "CopyFieldMappingException", name |-> name, message |-> message,
     src_field |-> src_field]

OPENSEARCH_PACKAGE_CREATION_FAILED == "OpenSearch package creation failed"
OPENSEARCH_PACKAGE_UPDATE_FAILED == "OpenSearch package update failed"
OPENSEARCH_PACKAGE_ASSOCIATION_FAILED == "OpenSearch package association failed"
OPENSEARCH_PACKAGE_DESCRIBE_FAILED == "OpenSearch package describe failed"
S3_BUCKET_ACCESS_DENIED == "S3Bucket access denied"
S3_BUCKET_NOT_FOUND == "S3Bucket not found"
S3_UPLOAD_FAILED == "S3 upload failed"

\* an exception: its class, its name field (<<>> for None) and its message
Exc(type, name, message) == [type |-> type, name |-> name, message |-> message]

OpenSearchMappingException(name, message) ==
    Exc("OpenSearchMappingException", name, message)

NoExc == Exc("", <<>>, "")

(***************************************************************************)
(* Package lifecycle (OpenSearchClient).  A call runs on a state           *)
(*   st = [pkgs, s3, files, calls, ...]                                     *)
(* and yields [st, raised, exc, val].  The remote's answer to the call is  *)
(* its fault: the one step at which the remote fails, if any (the call     *)
(* stops at the first step that raises).                                   *)
(***************************************************************************)
Faults ==
    {"none", "describe", "bucket404", "bucket403", "upload", "opaque_etag", "create",
     "copy_failed", "update", "associate", "association_failed", "head403"}

Log(st, call, arg) == [st EXCEPT !.calls = Append(@, [call |-> call, arg |-> arg])]

Returns(st, val) == [st |-> st, raised |-> FALSE, exc |-> NoExc, val |-> val]

Raises(st, exc) == [st |-> st, raised |-> TRUE, exc |-> exc, val |-> <<>>]

\* the rest of a call after a step with outcome r: an exception that the
\* step raised and the caller does not catch ends the call
Then(r, rest(_)) == IF r.raised THEN r ELSE rest(r)

\* the rest of a call after a local variable got the value v
Let(v, rest(_)) == rest(v)

\* hashlib.md5 of a file, as S3 reports it for an object uploaded in one part
Md5(content) == [alg |-> "md5", of |-> content]

Sha256(content) == [alg |-> "sha256", of |-> content]

\* _calculate_etag
_calculate_etag(st, file) ==
    [md5_hash |-> Md5(st.files[file]), sha256_hash |-> Sha256(st.files[file])]

PackageID(package_name) == <<"F">> \o package_name

\* the ETag of an object that is not the MD5 of its content: a multipart
\* upload, or a bucket encrypted with a KMS key
OpaqueETag == [alg |-> "multipart", of |-> <<>>]

\* _upload_to_s3, with _check_s3_bucket_access
_upload_to_s3(st, file_key, file_name, fault) ==
    LET s1 == Log(st, "head_bucket", file_key)
    IN IF fault = "bucket404"
       THEN Raises(s1, OpenSearchMappingException(<<>>, S3_BUCKET_NOT_FOUND))
       ELSE IF fault = "bucket403"
       THEN Raises(s1, OpenSearchMappingException(<<>>, S3_BUCKET_ACCESS_DENIED))
       ELSE LET s2 == Log(s1, "upload_file", file_key)
            IN IF fault = "upload"
               THEN Raises(s2, OpenSearchMappingException(<<>>, S3_UPLOAD_FAILED))
               ELSE Returns([s2 EXCEPT !.s3 =
                               SetAttr(@, file_key,
                                       IF fault = "opaque_etag" THEN OpaqueETag
                                       ELSE Md5(st.files[file_name]))], <<>>)

\* _create_package, with _wait_for_package_available
_create_package(st, package_name, fault) ==
    LET s1 == Log(st, "create_package", package_name)
        failed == OpenSearchMappingException(package_name,
                                             OPENSEARCH_PACKAGE_CREATION_FAILED)
    IN IF fault = "create" THEN Raises(s1, failed)
       ELSE IF fault = "copy_failed"
       THEN Raises([s1 EXCEPT !.pkgs =
                       SetAttr(@, package_name,
                               [status |-> "COPY_FAILED", domain |-> "NONE"])], failed)
       ELSE Returns([s1 EXCEPT !.pkgs =
                       SetAttr(@, package_name,
                               [status |-> "AVAILABLE", domain |-> "NONE"])], <<>>)

\* _update_package, with _wait_for_package_available
_update_package(st, package_name, fault) ==
    LET s1 == Log(st, "update_package", package_name)
        failed == OpenSearchMappingException(PackageID(package_name),
                                             OPENSEARCH_PACKAGE_UPDATE_FAILED)
    IN IF fault = "update" THEN Raises(s1, failed)
       ELSE IF fault = "copy_failed"
       THEN Raises([s1 EXCEPT !.pkgs[package_name].status = "COPY_FAILED"], failed)
       ELSE Returns([s1 EXCEPT !.pkgs[package_name].status = "AVAILABLE"], <<>>)

\* _associate_package, with _wait_for_association: a reported
\* ASSOCIATION_FAILED is returned as a status, not raised
_associate_package(st, package_name, fault) ==
    LET s1 == Log(st, "associate_package", package_name)
    IN IF fault = "associate"
       THEN Raises(s1, OpenSearchMappingException(PackageID(package_name),
                                                  OPENSEARCH_PACKAGE_ASSOCIATION_FAILED))
       ELSE IF fault = "association_failed"
       THEN Returns([s1 EXCEPT !.pkgs[package_name].domain = "ASSOCIATION_FAILED"],
                    <<>>)
       ELSE Returns([s1 EXCEPT !.pkgs[package_name].domain = "ACTIVE"], <<>>)

\* upload, then update, then associate: the changed-content path
UploadUpdateAssociate(st, package_name, file, fault) ==
    Then(_upload_to_s3(st, file, file, fault), LAMBDA up :
    Then(_update_package(up.st, package_name, fault), LAMBDA upd :
    Then(_associate_package(upd.st, package_name, fault), LAMBDA as :
    Returns(as.st, PackageID(package_name)))))

\* upload, then create, then associate: the new-package path
UploadCreateAssociate(st, package_name, file, fault) ==
    Then(_upload_to_s3(st, file, file, fault), LAMBDA up :
    Then(_create_package(up.st, package_name, fault), LAMBDA cr :
    Then(_associate_package(cr.st, package_name, fault), LAMBDA as :
    Returns(as.st, PackageID(package_name)))))

\* a comparison that takes any stored object for the local file
Mut_Unchanged(st, file) == Has(st.s3, file)

\* the comparison of the stored ETag with the local checksums
Unchanged(st, file) ==
    \/ st.s3[file] = _calculate_etag(st, file).md5_hash
    \/ st.s3[file] = _calculate_etag(st, file).sha256_hash

\* the branch for a package name the service already lists
ExistingPackage(st, package_name, file, fault) ==
    LET s1 == Log(st, "head_object", file)
    IN IF fault = "head403" THEN Raises(s1, Exc("ClientError", <<>>, "403"))
       ELSE IF ~Has(st.s3, file)
       THEN UploadUpdateAssociate(s1, package_name, file, fault)
       ELSE IF Unchanged(s1, file)
       THEN Returns(s1, PackageID(package_name))
       ELSE UploadUpdateAssociate(s1, package_name, file, fault)

\* OpenSearchClient.create_and_associate_package
create_and_associate_package(st, package_name, file, fault) ==
    LET s1 == Log(st, "describe_packages", package_name)
    IN IF fault = "describe"
       THEN Raises(s1, OpenSearchMappingException(<<"all_packages">>,
                                                  OPENSEARCH_PACKAGE_DESCRIBE_FAILED))
       ELSE IF ~Has(st.pkgs, package_name)
       THEN UploadCreateAssociate(s1, package_name, file, fault)
       ELSE ExistingPackage(s1, package_name, file, fault)

(***************************************************************************)
(* get_hash: json.dumps with sorted keys, a digest of the text reduced     *)
(* modulo 10^8, printed in decimal.  The digest is a rolling checksum over *)
(* the atoms of the text.                                                  *)
(***************************************************************************)
HashRange == 100000000

\* every atom that occurs in a hashed definition, in a fixed order
AtomOrder ==
    <<"class", "ignoreCase", "ignore_case", "mapping", "mappings_path",
      "maxTokenLength", "max_token_length", "name", "stopwords", "synonyms",
      "synonyms_path", "words", ":", ",", "[", "]", ".", "_", "-", "/",
      "solr", "org", "Std", "std", "Token", "token", "izer", "Filter", "filter",
      "Char", "char", "Factory", "factory", "Lower", "lower", "Stop", "stop",
      "Syn", "syn", "Graph", "graph", "Foo", "foo", "Html", "html", "Strip", "strip",
      "Map", "map", "White", "white", "txt", "true", "false", "255", "100",
      "analyzers/", "F", "p-", "c", "a", "b", "=>", " => ", " ", "TAB", "#", "|",
      "dict", "plain", "dictionary", "mappings", "word_list">>

AtomCode(a) == CHOOSE i \in 1..Len(AtomOrder) : AtomOrder[i] = a

\* the keys of definitions, sorted as json.dumps(sort_keys=True) sorts them
KeyOrder ==
    <<"class", "dictionary", "ignoreCase", "ignore_case", "mapping", "mappings",
      "mappings_path", "maxTokenLength", "max_token_length", "name", "stopwords",
      "synonyms", "synonyms_path", "word_list", "words">>

SortedKeys(d) == LET In(k) == k \in DOMAIN d IN SelectSeq(KeyOrder, In)

RECURSIVE Dumps(_, _)
Dumps(d, keys) ==
    IF keys = <<>> THEN <<>>
    ELSE <<keys[1], ":">> \o d[keys[1]] \o <<",">> \o Dumps(d, Tail(keys))

RECURSIVE Roll(_, _)
Roll(h, text) ==
    IF text = <<>> THEN h
    ELSE Roll((h * 17 + AtomCode(Head(text))) % HashRange, Tail(text))

RECURSIVE Str(_)
Str(n) ==
    LET digit(i) == <<"0", "1", "2", "3", "4", "5", "6", "7", "8", "9">>[i + 1]
    IN IF n < 10 THEN <<digit(n)>> ELSE Str(n \div 10) \o <<digit(n % 10)>>

get_hash(d) == Str(Roll(7, Dumps(d, SortedKeys(d))))

(***************************************************************************)
(* Mapping tables: lowercased source name -> [type, attrs], attrs giving a *)
(* rule per target attribute.  A rule is a dict with the keys valueFrom,   *)
(* valueFromFile, create_package and default that it carries.              *)
(***************************************************************************)
ValueFrom(attr, default) ==
    [k \in {"valueFrom", "default"} |-> IF k = "valueFrom" THEN attr ELSE default]

ValueFromFile(attr) == [k \in {"valueFromFile"} |-> attr]

ValueFromFilePackage(attr, flag) ==
    [k \in {"valueFromFile", "create_package"} |->
        IF k = "valueFromFile" THEN attr ELSE flag]

NoAttrs == [k \in {} |-> ValueFromFile("")]

_filter_mapping ==
    [n \in { <<"lower">>, <<"stop">>, <<"syn">>, <<"syn", "graph">>, <<"dict">> } |->
        CASE n = <<"lower">> -> [type |-> "lowercase", attrs |-> NoAttrs]
          [] n = <<"dict">> ->
                [type |-> "dictionary_decompounder",
                 attrs |-> [k \in {"word_list"} |->
                              ValueFromFilePackage("dictionary", FALSE)]]
          [] n = <<"stop">> ->
                [type |-> "stop",
                 attrs |-> [k \in {"ignore_case", "stopwords"} |->
                              IF k = "ignore_case"
                              THEN ValueFrom("ignoreCase", <<"false">>)
                              ELSE ValueFromFile("words")]]
          [] n = <<"syn">> ->
                [type |-> "synonym",
                 attrs |-> [k \in {"synonyms_path"} |->
                              ValueFromFilePackage("synonyms", TRUE)]]
          [] n = <<"syn", "graph">> ->
                [type |-> "synonym_graph",
                 attrs |-> [k \in {"synonyms_path"} |->
                              ValueFromFilePackage("synonyms", TRUE)]]]

_char_filter_mapping ==
    [n \in { <<"html", "strip">>, <<"map">>, <<"plain">> } |->
        CASE n = <<"html", "strip">> -> [type |-> "html_strip", attrs |-> NoAttrs]
          [] n = <<"plain">> ->
                [type |-> "mapping",
                 attrs |-> [k \in {"mappings"} |->
                              ValueFromFilePackage("mapping", FALSE)]]
          [] n = <<"map">> ->
                [type |-> "mapping",
                 attrs |-> [k \in {"mappings_path"} |->
                              ValueFromFilePackage("mapping", TRUE)]]]

_tokenizer_mapping ==
    [n \in { <<"std">>, <<"white">> } |->
        CASE n = <<"std">> ->
                [type |-> "standard",
                 attrs |-> [k \in {"max_token_length"} |->
                              ValueFrom("maxTokenLength", <<"255">>)]]
          [] n = <<"white">> -> [type |-> "whitespace", attrs |-> NoAttrs]]

(***************************************************************************)
(* Typed mapping exceptions and target constructs                          *)
(***************************************************************************)
TokenizerMappingException(name, message) == Exc("TokenizerMappingException", name, message)

FilterMappingException(name, message) == Exc("FilterMappingException", name, message)

CharFilterMappingException(name, message) ==
    Exc("CharFilterMappingException", name, message)

\* opensearchpy token_filter / char_filter / tokenizer(name, type, **attrs)
Construct(kind, name, type, attrs) ==
    [construct |-> kind, name |-> name, type |-> type, attrs |-> attrs]

(***************************************************************************)
(* Dictionary files of the source collection                               *)
(***************************************************************************)
SolrFiles ==
    [f \in { <<"syn", ".", "txt">>, <<"stop", ".", "txt">>, <<"map", ".", "txt">> } |->
        CASE f = <<"syn", ".", "txt">> ->
                << <<"#", "a">>, <<"a", ",", "b">>, <<>>, <<" ", "b", "TAB", "a", " ">> >>
          [] f = <<"stop", ".", "txt">> -> << <<"|", "a">>, <<"a">>, <<"|">>, <<" ">> >>
          [] f = <<"map", ".", "txt">> -> << <<"a", "=>", "b">> >>]

IsSpace(a) == a \in {" ", "TAB"}

RECURSIVE StripLeft(_)
StripLeft(line) ==
    IF line # <<>> /\ IsSpace(Head(line)) THEN StripLeft(Tail(line)) ELSE line

RECURSIVE StripRight(_)
StripRight(line) ==
    IF line # <<>> /\ IsSpace(line[Len(line)])
    THEN StripRight(SubSeq(line, 1, Len(line) - 1))
    ELSE line

\* str.strip()
Strip(line) == StripRight(StripLeft(line))

\* the lines _get_file_data keeps
KeepLine(line) ==
    /\ line # <<>>
    /\ Head(line) # "#"
    /\ Head(line) # "|"

\* filter_name.lower().startswith("stemmeroverride")
IsStemmerOverride(filter_name) ==
    filter_name # <<>> /\ Lower(filter_name)[1] = "stemmeroverride"

\* line.replace('\t', ' => ')
ReplaceTabs(line) == [i \in 1..Len(line) |-> IF line[i] = "TAB" THEN " => " ELSE line[i]]

\* FilterHelper._get_file_data: the fetch may fail in the source client
_get_file_data(st, filter_name, filename, fault) ==
    LET s1 == Log(st, "get_solr_file_data", filename)
        stripped == [i \in 1..Len(SolrFiles[filename]) |-> Strip(SolrFiles[filename][i])]
        kept == SelectSeq(stripped, KeepLine)
    IN IF fault = "solr_file" \/ ~Has(SolrFiles, filename)
       THEN Raises(s1, Exc("SolrFileError", <<>>, "fetch failed"))
       ELSE Returns(s1, IF IsStemmerOverride(filter_name)
                        THEN [i \in 1..Len(kept) |-> ReplaceTabs(kept[i])]
                        ELSE kept)

\* FilterHelper._create_package_file
_create_package_file(st, file_path_new, solr_file, filter_name, fault) ==
    Then(_get_file_data(st, filter_name, solr_file, fault), LAMBDA d :
    Returns(Log([d.st EXCEPT !.files = SetAttr(@, file_path_new, d.val)],
                "write_file", file_path_new), <<>>))

\* filename.replace("/", "-").replace(".", "-").replace("_", "-")
ReplaceSeparators(filename) ==
    [i \in 1..Len(filename) |->
        IF filename[i] \in {"/", ".", "_"} THEN "-" ELSE filename[i]]

\* FilterHelper._handle_packages
_handle_packages(st, solr_filter_name, filename, fault) ==
    LET package_name == Lower(<<"p-", "c", "-">> \o ReplaceSeparators(filename))
        package_file == <<"migration_schema/", "c", "/packages/">> \o package_name
        package_key == solr_filter_name \o <<"_">> \o package_file
    IN IF Has(st.packages_map, package_key)
       THEN Returns(st, st.packages_map[package_key].filter_attrib_value)
       ELSE Then(_create_package_file(st, package_file, filename, solr_filter_name,
                                      fault), LAMBDA f :
            Then(create_and_associate_package(f.st, package_name, package_file,
                                              fault), LAMBDA c :
            Returns([c.st EXCEPT !.packages_map =
                       SetAttr(@, package_key,
                               [package_name |-> package_name,
                                package_attrib |-> solr_filter_name,
                                filter_attrib_value |-> <<"analyzers/">> \o c.val])],
                    <<"analyzers/">> \o c.val)))

\* a list of lines as a JSON value
RECURSIVE JoinLines(_)
JoinLines(lines) ==
    IF lines = <<>> THEN <<>>
    ELSE IF Len(lines) = 1 THEN lines[1]
    ELSE lines[1] \o <<",">> \o JoinLines(Tail(lines))

ListValue(lines) == <<"[">> \o JoinLines(lines) \o <<"]">>

\* the body shared by _process_filter_mapping_key and
\* _process_char_filter_mapping_key, which differ in the package-key prefix
ProcessMappingKey(st, key, rule, solr_filter, custom_filter_def, solr_filter_name, prefix, fault) ==
    IF Has(rule, "valueFrom")
    THEN Returns(st, SetAttr(custom_filter_def, key,
                             IF Has(solr_filter, rule["valueFrom"])
                             THEN solr_filter[rule["valueFrom"]]
                             ELSE rule["default"]))
    ELSE IF Has(rule, "valueFromFile")
    THEN IF Has(rule, "create_package") /\ st.config["create_package"]
         THEN IF ~Has(solr_filter, rule["valueFromFile"])
              THEN Raises(st, Exc("AttributeError", <<>>, "NoneType"))
              ELSE Then(_handle_packages(st, prefix \o solr_filter_name,
                                         solr_filter[rule["valueFromFile"]], fault),
                        LAMBDA h :
                        Returns(h.st, SetAttr(custom_filter_def, key, h.val)))
         ELSE IF st.config["expand_files_array"]
         THEN IF ~Has(solr_filter, rule["valueFromFile"])
              THEN Raises(st, Exc("SolrFileError", <<>>, "fetch failed"))
              ELSE Then(_get_file_data(st, solr_filter_name,
                                       solr_filter[rule["valueFromFile"]], fault),
                        LAMBDA d :
                        Returns(d.st, SetAttr(custom_filter_def, key, ListValue(d.val))))
         ELSE Returns(st, SetAttr(custom_filter_def, key, <<"[", "]">>))
    ELSE Returns(st, SetAttr(custom_filter_def, key, rule["default"]))

\* FilterHelper._process_filter_mapping_key
_process_filter_mapping_key(st, key, filter_mapping, solr_filter, custom_filter_def, solr_filter_name, fault) ==
    ProcessMappingKey(st, key, filter_mapping[key], solr_filter, custom_filter_def,
                      solr_filter_name, <<"filter_">>, fault)

\* FilterHelper._process_char_filter_mapping_key
_process_char_filter_mapping_key(st, key, char_filter_mapping, solr_char_filter, custom_filter_def, solr_filter_name, fault) ==
    ProcessMappingKey(st, key, char_filter_mapping[key], solr_char_filter,
                      custom_filter_def, solr_filter_name, <<"char_filter">>, fault)

\* the loop over the keys of a table entry; val is custom_filter_def
RECURSIVE MapKeys(_, _, _, _, _, _, _, _)
MapKeys(st, keys, mapping, solr, custom_filter_def, name, kind, fault) ==
    IF keys = <<>> THEN Returns(st, custom_filter_def)
    ELSE Then(IF kind = "filter"
              THEN _process_filter_mapping_key(st, keys[1], mapping, solr,
                                               custom_filter_def, name, fault)
              ELSE _process_char_filter_mapping_key(st, keys[1], mapping, solr,
                                                    custom_filter_def, name, fault),
              LAMBDA r :
              MapKeys(r.st, Tail(keys), mapping, solr, r.val, name, kind, fault))

EmptyDef == [k \in {} |-> <<>>]

(***************************************************************************)
(* Construct mappers.  st carries filter_map, tokenizer_map, packages_map  *)
(* and config next to the remote state.                                    *)
(***************************************************************************)
\* FilterHelper._map_filter
_map_filter(st, solr_filter, fault) ==
    Let(_get_filter_name(solr_filter), LAMBDA n :
    IF ~n.ok THEN Raises(st, Exc(n.err, <<>>, "raw"))
    ELSE
    Let(n.val, LAMBDA solr_filter_name :
    Let(solr_filter_name \o get_hash(solr_filter), LAMBDA hashed_solr_filter_name :
    IF ~Has(_filter_mapping, solr_filter_name)
    THEN Raises(st, FilterMappingException(solr_filter_name, MAPPING_NOT_FOUND))
    ELSE IF Has(st.filter_map, hashed_solr_filter_name)
    THEN Returns(st, st.filter_map[hashed_solr_filter_name])
    ELSE
    Let(_filter_mapping[solr_filter_name], LAMBDA filter_mapping :
    Let(MapKeys(st, SortedKeys(filter_mapping.attrs), filter_mapping.attrs,
                solr_filter, EmptyDef, solr_filter_name, "filter", fault), LAMBDA k :
    IF k.raised
    THEN IF k.exc.type = "OpenSearchMappingException"
         THEN Raises(k.st, FilterMappingException(solr_filter_name, k.exc.message))
         ELSE k
    ELSE
    Let(Construct("token_filter", hashed_solr_filter_name, filter_mapping.type, k.val),
        LAMBDA tf :
    Returns([k.st EXCEPT !.filter_map = SetAttr(@, hashed_solr_filter_name, tf)],
            tf)))))))

\* FilterHelper._map_char_filter
_map_char_filter(st, solr_char_filter, fault) ==
    Let(_get_filter_name(solr_char_filter), LAMBDA n :
    IF ~n.ok THEN Raises(st, Exc(n.err, <<>>, "raw"))
    ELSE
    Let(n.val, LAMBDA solr_filter_name :
    IF ~Has(_char_filter_mapping, solr_filter_name)
    THEN Raises(st, CharFilterMappingException(solr_filter_name, MAPPING_NOT_FOUND))
    ELSE
    Let(_char_filter_mapping[solr_filter_name], LAMBDA char_filter_mapping :
    Let(MapKeys(st, SortedKeys(char_filter_mapping.attrs), char_filter_mapping.attrs,
                solr_char_filter, EmptyDef, solr_filter_name, "char_filter", fault),
        LAMBDA k :
    IF k.raised
    THEN IF k.exc.type = "OpenSearchMappingException"
         THEN Raises(k.st, CharFilterMappingException(solr_filter_name, k.exc.message))
         ELSE k
    ELSE
    Let(solr_filter_name \o get_hash(k.val), LAMBDA hashed :
    Returns([k.st EXCEPT !.filter_map =
               SetAttr(@, hashed, Construct("dict", <<>>, "", k.val))],
            Construct("char_filter", hashed, char_filter_mapping.type, k.val)))))))

\* the pre-check loop of map_filters / map_char_filters: the first element
\* that stops the scan, as a raised result, or a normal return
RECURSIVE PreCheck(_, _, _, _)
PreCheck(st, configs, table, kind) ==
    IF configs = <<>> THEN Returns(st, <<>>)
    ELSE Let(_get_filter_name(Head(configs)), LAMBDA n :
         IF ~n.ok THEN Raises(st, Exc(n.err, <<>>, "raw"))
         ELSE IF ~Has(table, n.val)
         THEN Raises(st, IF kind = "filter"
                         THEN FilterMappingException(n.val, MAPPING_NOT_FOUND)
                         ELSE CharFilterMappingException(n.val, MAPPING_NOT_FOUND))
         ELSE PreCheck(st, Tail(configs), table, kind))

\* the mapping loop of map_filters / map_char_filters; faults[i] is the
\* remote's answer while element i is mapped
RECURSIVE MapEach(_, _, _, _, _, _)
MapEach(st, configs, i, faults, kind, mapped) ==
    IF i > Len(configs) THEN Returns(st, mapped)
    ELSE Then(IF kind = "filter" THEN _map_filter(st, configs[i], faults[i])
              ELSE _map_char_filter(st, configs[i], faults[i]),
              LAMBDA f :
              MapEach(f.st, configs, i + 1, faults, kind, Append(mapped, f.val)))

\* map_filters without its pre-check loop
Mut_map_filters(st, solr_filters, faults) ==
    MapEach(st, solr_filters, 1, faults, "filter", <<>>)

\* FilterHelper.map_filters
map_filters(st, solr_filters, faults) ==
    Then(PreCheck(st, solr_filters, _filter_mapping, "filter"), LAMBDA pre :
    MapEach(st, solr_filters, 1, faults, "filter", <<>>))

\* FilterHelper.map_char_filters
map_char_filters(st, solr_char_filters, faults) ==
    Then(PreCheck(st, solr_char_filters, _char_filter_mapping, "char_filter"),
         LAMBDA pre :
    MapEach(st, solr_char_filters, 1, faults, "char_filter", <<>>))

\* the attribute loop of map_tokenizer
TokenizerDef(tokenizer_mapping, solr_tokenizer) ==
    [key \in DOMAIN tokenizer_mapping.attrs |->
        LET rule == tokenizer_mapping.attrs[key]
        IN IF Has(rule, "valueFrom") /\ Has(solr_tokenizer, rule["valueFrom"])
           THEN solr_tokenizer[rule["valueFrom"]]
           ELSE rule["default"]]

\* a tokenizer mapper that falls back to a default construct
Mut_map_tokenizer(st, solr_tokenizer) ==
    Returns([st EXCEPT !.tokenizer_map = SetAttr(@, <<"default">>, <<"default">>)],
            Construct("tokenizer", <<"default">>, "standard", EmptyDef))

\* TokenizerHelper.map_tokenizer
map_tokenizer(st, solr_tokenizer) ==
    Let(_get_tokenizer_name(solr_tokenizer), LAMBDA n :
    IF ~n.ok THEN Raises(st, Exc(n.err, <<>>, "raw"))
    ELSE IF ~Has(_tokenizer_mapping, n.val)
    THEN Raises(st, TokenizerMappingException(n.val, MAPPING_NOT_FOUND))
    ELSE
    Let(_tokenizer_mapping[n.val], LAMBDA tokenizer_mapping :
    Let(TokenizerDef(tokenizer_mapping, solr_tokenizer), LAMBDA tokenizer_def :
    Let(n.val \o get_hash(tokenizer_def), LAMBDA tokenizer_name :
    Returns([st EXCEPT !.tokenizer_map = SetAttr(@, tokenizer_name, tokenizer_name)],
            Construct("tokenizer", tokenizer_name, tokenizer_mapping.type,
                      tokenizer_def))))))

(***************************************************************************)
(* Analyzer composer and field-type mapper                                 *)
(***************************************************************************)
\* AnalyzerMappingException: a sub-exception that is None is NoExc
AnalyzerMappingException(name, filter_exception, tokenizer_exception, char_filter_exception) ==
    [type |-> "AnalyzerMappingException", name |-> name, message |-> "Analyzer failed",
     filter_exception |-> filter_exception,
     tokenizer_exception |-> tokenizer_exception,
     char_filter_exception |-> char_filter_exception]

FieldTypeMappingException(name, message, analyzer_exception) ==
    [type |-> "FieldTypeMappingException", name |-> name, message |-> message,
     analyzer_exception |-> analyzer_exception]

NoConstruct == Construct("none", <<>>, "", EmptyDef)

\* whether the except clause of one category catches the raised result
Caught(r, type) == r.raised /\ r.exc.type = type

\* a composer that stops at the tokenizer
Mut_map_analyzer(st, analyzer_name, solr_analyzer, faults) ==
    Let(IF Has(solr_analyzer, "tokenizer")
        THEN map_tokenizer(st, solr_analyzer["tokenizer"])
        ELSE Returns(st, NoConstruct), LAMBDA t :
    IF Caught(t, "TokenizerMappingException")
    THEN Raises(t.st, AnalyzerMappingException(analyzer_name, NoExc, t.exc, NoExc))
    ELSE IF t.raised THEN t
    ELSE Returns(t.st, [construct |-> "analyzer", name |-> analyzer_name,
                        tokenizer |-> t.val, filter |-> <<>>, char_filter |-> <<>>]))

\* the exception a try block of _map_analyzer keeps, None otherwise
Kept(r, type) == IF Caught(r, type) THEN r.exc ELSE NoExc

\* the end of _map_analyzer, after the three try blocks with outcomes t, f, c
ComposeAnalyzer(analyzer_name, t, f, c) ==
    IF t.raised /\ ~Caught(t, "TokenizerMappingException") THEN t
    ELSE IF f.raised /\ ~Caught(f, "FilterMappingException") THEN f
    ELSE IF c.raised /\ ~Caught(c, "CharFilterMappingException") THEN c
    ELSE IF t.raised \/ f.raised \/ c.raised
    THEN Raises(c.st, AnalyzerMappingException(
                         analyzer_name,
                         Kept(f, "FilterMappingException"),
                         Kept(t, "TokenizerMappingException"),
                         Kept(c, "CharFilterMappingException")))
    ELSE Returns(c.st, [construct |-> "analyzer", name |-> analyzer_name,
                        tokenizer |-> t.val, filter |-> f.val, char_filter |-> c.val])

\* AnalyzerHelper._map_analyzer; faults = [filters, charFilters]
_map_analyzer(st, analyzer_name, solr_analyzer, faults) ==
    Let(IF Has(solr_analyzer, "tokenizer")
        THEN map_tokenizer(st, solr_analyzer["tokenizer"])
        ELSE Returns(st, NoConstruct), LAMBDA t :
    Let(IF Has(solr_analyzer, "filters")
        THEN map_filters(t.st, solr_analyzer["filters"], faults.filters)
        ELSE Returns(t.st, <<>>), LAMBDA f :
    Let(IF Has(solr_analyzer, "charFilters")
        THEN map_char_filters(f.st, solr_analyzer["charFilters"], faults.charFilters)
        ELSE Returns(f.st, <<>>), LAMBDA c :
    ComposeAnalyzer(analyzer_name, t, f, c))))

MaxFilters == 2

NoFaults == [filters |-> [i \in 1..MaxFilters |-> "none"],
             charFilters |-> [i \in 1..MaxFilters |-> "none"]]

\* the roles map_analyzer takes in turn: key of the field type, suffix of the
\* analyzer name, whether the result is appended; the index role is mapped
\* twice and the second result is kept
AnalyzerRoles ==
    << [key |-> "analyzer", suffix |-> <<>>, kept |-> TRUE],
       [key |-> "indexAnalyzer", suffix |-> <<"_index">>, kept |-> FALSE],
       [key |-> "indexAnalyzer", suffix |-> <<"_index">>, kept |-> TRUE],
       [key |-> "queryAnalyzer", suffix |-> <<"_query">>, kept |-> TRUE] >>

RECURSIVE MapRoles(_, _, _, _, _)
MapRoles(st, field_type, i, faults, opensearch_analyzer) ==
    IF i > Len(AnalyzerRoles) THEN Returns(st, opensearch_analyzer)
    ELSE IF ~Has(field_type, AnalyzerRoles[i].key)
    THEN MapRoles(st, field_type, i + 1, faults, opensearch_analyzer)
    ELSE Then(_map_analyzer(st, field_type["name"] \o AnalyzerRoles[i].suffix,
                            field_type[AnalyzerRoles[i].key], faults),
              LAMBDA a :
              MapRoles(a.st, field_type, i + 1, faults,
                       IF AnalyzerRoles[i].kept THEN Append(opensearch_analyzer, a.val)
                       ELSE opensearch_analyzer))

\* AnalyzerHelper.map_analyzer
map_analyzer(st, field_type, faults) == MapRoles(st, field_type, 1, faults, <<>>)

None == "None"

\* field_data_types.json: source class -> target data type
_field_data_types_mapping ==
    [c \in {"solr.TextField", "solr.StrField"} |->
        IF c = "solr.TextField" THEN "text" ELSE "keyword"]

\* FieldTypeHelper._map_field_data_type
_map_field_data_type(solr_field_type) ==
    IF Has(_field_data_types_mapping, solr_field_type["class"])
    THEN _field_data_types_mapping[solr_field_type["class"]]
    ELSE None

\* a field-type mapper that lets the analyzer error through
Mut_map_field_type_analyzer(st, solr_field_type, faults) ==
    map_analyzer(st, solr_field_type, faults)

\* FieldTypeHelper.map_field_type_analyzer
map_field_type_analyzer(st, solr_field_type, faults) ==
    Let(solr_field_type["name"], LAMBDA field_type_name :
    Let(_map_field_data_type(solr_field_type), LAMBDA field_type_data_type :
    Let(map_analyzer(st, solr_field_type, faults), LAMBDA m :
    IF ~m.raised
    THEN Returns([m.st EXCEPT !.field_types_map =
                    SetAttr(@, field_type_name, field_type_data_type)], m.val)
    ELSE IF m.exc.type = "AnalyzerMappingException"
    THEN Raises(IF Has(st.config, "skip_text_analysis_failure")
                   /\ st.config["skip_text_analysis_failure"]
                THEN [m.st EXCEPT !.field_types_map =
                        SetAttr(@, field_type_name, field_type_data_type)]
                ELSE m.st,
                FieldTypeMappingException(field_type_name, m.exc.message, m.exc))
    ELSE m)))

(***************************************************************************)
(* Specification of the package lifecycle alone: the remote starts in any  *)
(* of the states an earlier run can have left, local package files are     *)
(* rewritten, and create_and_associate_package is called on them.          *)
(***************************************************************************)
PackageNames == { <<"p-", "c", "-", "syn", "-", "txt">> }

PackageFile(package_name) == <<"migration_schema/", "c", "/packages/">> \o package_name

FileContents == { << <<"a">> >>, << <<"a">>, <<"b">> >> }

\* what an earlier run can have left under one package name
EarlierPackages ==
    { [status |-> "AVAILABLE", domain |-> "ACTIVE"],
      [status |-> "AVAILABLE", domain |-> "NONE"] }

\* ETags an earlier upload can have left: one-part uploads and a multipart one
EarlierETags == { Md5(c) : c \in FileContents } \cup {OpaqueETag}

HelpersOff ==
    /\ _filter_map = EmptyMap
    /\ _tokenizer_map = EmptyMap
    /\ _packages_map = EmptyMap
    /\ _migration_config = EmptyMap
    /\ _field_types_map = EmptyMap

RemoteOff ==
    /\ opensearch_packages = EmptyMap
    /\ s3_objects = EmptyMap
    /\ package_files = EmptyMap
    /\ last = [op |-> "none"]

PkgInit ==
    /\ \E known \in SUBSET PackageNames : opensearch_packages \in [known -> EarlierPackages]
    /\ \E stored \in SUBSET PackageNames :
          \E etags \in [stored -> EarlierETags] :
             s3_objects = [f \in { PackageFile(n) : n \in stored } |->
                             etags[CHOOSE n \in stored : PackageFile(n) = f]]
    /\ package_files = [f \in { PackageFile(n) : n \in PackageNames } |->
                           CHOOSE c \in FileContents : Len(c) = 1]
    /\ last = [op |-> "none"]
    /\ nameCall = [kind |-> "off"]
    /\ DriversOff
    /\ copyFields = [phase |-> "off"]
    /\ HelpersOff

\* the state a lifecycle call runs on
RemoteState ==
    [pkgs |-> opensearch_packages, s3 |-> s3_objects, files |-> package_files,
     calls |-> <<>>]

\* how the stored object compares with the local file before the call
Digest(file) ==
    IF ~Has(s3_objects, file) THEN "absent"
    ELSE IF s3_objects[file] \in {Md5(package_files[file]), Sha256(package_files[file])}
    THEN "equal"
    ELSE "differs"

\* the local package file is written anew (_create_package_file)
WritePackageFile(package_name, content) ==
    /\ package_files' = [package_files EXCEPT ![PackageFile(package_name)] = content]
    /\ last' = [op |-> "write", package_name |-> package_name]
    /\ UNCHANGED <<opensearch_packages, s3_objects, nameCall, copyFields, helpers, drivers>>

CreateAndAssociatePackage(package_name, fault) ==
    LET file == PackageFile(package_name)
        r == create_and_associate_package(RemoteState, package_name, file, fault)
    IN /\ opensearch_packages' = r.st.pkgs
       /\ s3_objects' = r.st.s3
       /\ package_files' = r.st.files
       /\ last' = [op |-> "create_and_associate_package",
                   package_name |-> package_name,
                   fault |-> fault,
                   existed |-> Has(opensearch_packages, package_name),
                   digest |-> Digest(file),
                   raised |-> r.raised, exc |-> r.exc, val |-> r.val,
                   calls |-> [i \in 1..Len(r.st.calls) |-> r.st.calls[i].call]]
       /\ UNCHANGED <<nameCall, copyFields, helpers, drivers>>

PkgNext ==
    \/ \E n \in PackageNames, c \in FileContents : WritePackageFile(n, c)
    \/ \E n \in PackageNames, f \in Faults : CreateAndAssociatePackage(n, f)

SpecPkg == PkgInit /\ [][PkgNext]_vars

(***************************************************************************)
(* Copy fields.  A field definition is a function from attribute names to  *)
(* values.  The value of copy_to is a scalar or a list; a list item records *)
(* whether it is itself a list, so that nesting is representable.          *)
(***************************************************************************)
Item(dst) == [nested |-> FALSE, names |-> <<dst>>]

Scalar(dst) == [isList |-> FALSE, items |-> <<Item(dst)>>]

\* [old, dst] for a scalar old; the same expression nests when old is a list
Pair(old, dst) ==
    [isList |-> TRUE,
     items |-> IF old.isList
               THEN <<[nested |-> TRUE,
                       names |-> [i \in 1..Len(old.items) |-> old.items[i].names[1]]],
                      Item(dst)>>
               ELSE <<old.items[1], Item(dst)>>]

\* old.append(dst)
Appended(old, dst) == [isList |-> TRUE, items |-> Append(old.items, Item(dst))]

\* a promotion that wraps the old value whatever it is
Mut_CopyToAfter(src_def, tracked, dst) ==
    IF ~tracked THEN SetAttr(src_def, "copy_to", Scalar(dst))
    ELSE SetAttr(src_def, "copy_to", Pair(src_def["copy_to"], dst))

\* the mutation of src_def in the try block of map_copy_field
CopyToAfter(src_def, tracked, dst) ==
    IF ~tracked THEN SetAttr(src_def, "copy_to", Scalar(dst))
    ELSE IF Has(src_def, "copy_to")
         THEN IF src_def["copy_to"].isList
              THEN SetAttr(src_def, "copy_to", Appended(src_def["copy_to"], dst))
              ELSE SetAttr(src_def, "copy_to", Pair(src_def["copy_to"], dst))
         ELSE SetAttr(src_def, "copy_to", [isList |-> TRUE, items |-> <<Item(dst)>>])

\* an endpoint check that forgets the destination
Mut_EndpointMissing(all_fields, src, dst) == ~Has(all_fields, src)

\* the endpoint check of map_copy_field: src_def is None or dst_def is None
EndpointMissing(all_fields, src, dst) ==
    ~Has(all_fields, src) \/ ~Has(all_fields, dst)

\* CopyFieldHelper.map_copy_field on helper state h = [all_fields, field_copy_to]
map_copy_field(h, solr_copy_field) ==
    LET src == solr_copy_field.source
        dst == solr_copy_field.dest
    IN IF EndpointMissing(h.all_fields, src, dst)
       THEN [raised |-> TRUE,
             exc |-> CopyFieldMappingException(src, MAPPING_NOT_FOUND, src),
             all_fields |-> h.all_fields,
             field_copy_to |-> h.field_copy_to]
       ELSE LET tracked == Has(h.field_copy_to, src)
                src_def == CopyToAfter(h.all_fields[src], tracked, dst)
            IN [raised |-> FALSE,
                exc |-> CopyFieldMappingException("", "", ""),
                all_fields |-> [h.all_fields EXCEPT ![src] = src_def],
                field_copy_to |->
                    SetAttr(h.field_copy_to, src,
                            IF tracked THEN Append(h.field_copy_to[src], dst)
                            ELSE <<dst>>)]

(***************************************************************************)
(* Specification of the copy-field loop (_migrate_copy_fields): the fields *)
(* already resolved are the snapshot handed to CopyFieldHelper; each step  *)
(* is one iteration of the loop on the next relation of the source schema. *)
(***************************************************************************)
MaxCopyFields == 4

ResolvedFields == {"title", "body", "text", "all"}

CopySources == {"title", "body", "ghost"}

CopyDests == {"text", "all", "ghost"}

CopyInit ==
    /\ copyFields =
         [phase |-> "copy",
          all_fields |-> [f \in ResolvedFields |-> [k \in {"type"} |-> "text"]],
          field_copy_to |-> EmptyMap,
          index_fields |-> [f \in ResolvedFields |-> [k \in {"type"} |-> "text"]],
          copy_field_solr |-> 0,
          copy_field_os |-> 0,
          copy_field_error |-> 0,
          copy_field_exception_list |-> <<>>,
          processed |-> <<>>,
          pre |-> [all_fields |-> EmptyMap, field_copy_to |-> EmptyMap,
                   index_fields |-> EmptyMap, copy_field_error |-> 0]]
    /\ nameCall = [kind |-> "off"]
    /\ DriversOff
    /\ RemoteOff
    /\ HelpersOff

\* one iteration of the loop of _migrate_copy_fields
MigrateCopyField(solr_copy_field) ==
    LET c == copyFields
        r == map_copy_field([all_fields |-> c.all_fields,
                             field_copy_to |-> c.field_copy_to], solr_copy_field)
        src == solr_copy_field.source
        dst == solr_copy_field.dest
    IN /\ c.phase = "copy"
       /\ c.copy_field_solr < MaxCopyFields
       /\ copyFields' =
            [c EXCEPT
               !.all_fields = r.all_fields,
               !.field_copy_to = r.field_copy_to,
               !.index_fields =
                   IF r.raised THEN @
                   ELSE [f \in DOMAIN @ \cup ({src, dst} \cap DOMAIN r.all_fields) |->
                            IF f \in {src, dst} THEN r.all_fields[f] ELSE @[f]],
               !.copy_field_solr = @ + 1,
               !.copy_field_os = IF r.raised THEN @ ELSE @ + 1,
               !.copy_field_error = IF r.raised THEN @ + 1 ELSE @,
               !.copy_field_exception_list = IF r.raised THEN Append(@, r.exc) ELSE @,
               !.processed = Append(@, [rel |-> solr_copy_field, raised |-> r.raised]),
               !.pre = [all_fields |-> c.all_fields, field_copy_to |-> c.field_copy_to,
                        index_fields |-> c.index_fields,
                        copy_field_error |-> c.copy_field_error]]
       /\ UNCHANGED <<nameCall, remote, helpers, drivers>>

CopyNext ==
    \E src \in CopySources, dst \in CopyDests :
        MigrateCopyField([source |-> src, dest |-> dst])

SpecCopy == CopyInit /\ [][CopyNext]_vars

NameInit ==
    /\ nameCall \in [config : NameConfigs, kind : {"none"}, res : {Raise("pending")}]
    /\ copyFields = [phase |-> "off"]
    /\ DriversOff
    /\ RemoteOff
    /\ HelpersOff

GetTokenizerName ==
    /\ nameCall.kind = "none"
    /\ nameCall' = [nameCall EXCEPT !.kind = "tokenizer",
                                    !.res = _get_tokenizer_name(nameCall.config)]
    /\ UNCHANGED <<copyFields, remote, helpers, drivers>>

GetFilterName ==
    /\ nameCall.kind = "none"
    /\ nameCall' = [nameCall EXCEPT !.kind = "filter",
                                    !.res = _get_filter_name(nameCall.config)]
    /\ UNCHANGED <<copyFields, remote, helpers, drivers>>

NameNext == GetTokenizerName \/ GetFilterName

SpecName == NameInit /\ [][NameNext]_vars

(***************************************************************************)
(* Specification of the mapping engine: each step is one call of a mapper  *)
(* on a definition of the source schema, with the remote's answers.        *)
(***************************************************************************)
Dict1(k1, v1) == [k \in {k1} |-> v1]

Dict2(k1, v1, k2, v2) == [k \in {k1, k2} |-> IF k = k1 THEN v1 ELSE v2]

Dict3(k1, v1, k2, v2, k3, v3) ==
    [k \in {k1, k2, k3} |-> IF k = k1 THEN v1 ELSE IF k = k2 THEN v2 ELSE v3]

\* filter definitions of the source schema
LowerByName == Dict1("name", <<"lower">>)
LowerByClass == Dict1("class", <<"solr", ".", "Lower", "Filter", "Factory">>)
SynByClass == Dict2("class", <<"solr", ".", "Syn", "Filter", "Factory">>,
                    "synonyms", <<"syn", ".", "txt">>)
SynGraphByName == Dict2("name", <<"syn", "graph">>, "synonyms", <<"syn", ".", "txt">>)
StopByName == Dict3("name", <<"Stop">>, "words", <<"stop", ".", "txt">>,
                    "ignoreCase", <<"true">>)
FooByName == Dict1("name", <<"foo">>)

\* the definitions filter lists are made of
FilterConfigs == {SynByClass, FooByName}

\* the definitions mapped one at a time
SingleFilterConfigs ==
    FilterConfigs \cup {LowerByName, LowerByClass, SynGraphByName, StopByName}

\* char-filter definitions of the source schema
HtmlStripByName == Dict1("name", <<"html", "strip">>)
MapByClass == Dict2("class", <<"solr", ".", "Map", "Char", "Filter", "Factory">>,
                    "mapping", <<"map", ".", "txt">>)
FooCharByClass == Dict1("class", <<"solr", ".", "Foo", "Char", "Filter", "Factory">>)

\* the definitions char-filter lists are made of
CharFilterConfigs == {MapByClass, FooCharByClass}

SingleCharFilterConfigs == CharFilterConfigs \cup {HtmlStripByName}

\* tokenizer definitions of the source schema
StdByClass == Dict1("class", <<"solr", ".", "Std", "Token", "izer", "Factory">>)
WhiteByName == Dict1("name", <<"White">>)
FooTokenizer == Dict1("class", <<"solr", ".", "Foo", "Token", "izer", "Factory">>)

ListsOf(S) == UNION { [1..n -> S] : n \in 0..MaxFilters }

\* the remote's answers during one call
MappingFaults == {"none", "copy_failed", "association_failed"}

FaultVectors == { [i \in 1..MaxFilters |-> f] : f \in MappingFaults }

MappingState ==
    [filter_map |-> _filter_map, tokenizer_map |-> _tokenizer_map,
     packages_map |-> _packages_map, field_types_map |-> _field_types_map,
     config |-> _migration_config, pkgs |-> opensearch_packages, s3 |-> s3_objects,
     files |-> package_files, calls |-> <<>>]

\* The effect of a call with result r.  A call is either observed, and then
\* last records its input, outcome and remote calls and it is the last call of
\* the run, or it is not, and the run goes on.
Commit(r, op, input, observed) ==
    /\ last.op = "none"
    /\ _filter_map' = r.st.filter_map
    /\ _tokenizer_map' = r.st.tokenizer_map
    /\ _packages_map' = r.st.packages_map
    /\ _field_types_map' = r.st.field_types_map
    /\ opensearch_packages' = r.st.pkgs
    /\ s3_objects' = r.st.s3
    /\ package_files' = r.st.files
    /\ last' = IF observed
               THEN [op |-> op, input |-> input, raised |-> r.raised, exc |-> r.exc,
                     val |-> r.val, calls |-> r.st.calls, pre |-> MappingState]
               ELSE [op |-> "none"]
    /\ UNCHANGED <<_migration_config, nameCall, copyFields, drivers>>

Init ==
    /\ _migration_config \in [{"create_package", "expand_files_array"} -> BOOLEAN]
    /\ _filter_map = EmptyMap
    /\ _tokenizer_map = EmptyMap
    /\ _packages_map = EmptyMap
    /\ _field_types_map = EmptyMap
    /\ RemoteOff
    /\ nameCall = [kind |-> "off"]
    /\ DriversOff
    /\ copyFields = [phase |-> "off"]

MapFilter(solr_filter, fault, observed) ==
    Commit(_map_filter(MappingState, solr_filter, fault), "_map_filter", solr_filter,
           observed)

MapCharFilter(solr_char_filter, fault, observed) ==
    Commit(_map_char_filter(MappingState, solr_char_filter, fault), "_map_char_filter",
           solr_char_filter, observed)

MapFilters(solr_filters, faults, observed) ==
    Commit(map_filters(MappingState, solr_filters, faults), "map_filters", solr_filters,
           observed)

MapCharFilters(solr_char_filters, faults, observed) ==
    Commit(map_char_filters(MappingState, solr_char_filters, faults),
           "map_char_filters", solr_char_filters, observed)

Next ==
    \/ \E f \in SingleFilterConfigs, fault \in MappingFaults, o \in BOOLEAN :
          MapFilter(f, fault, o)
    \/ \E c \in SingleCharFilterConfigs, fault \in MappingFaults, o \in BOOLEAN :
          MapCharFilter(c, fault, o)
    \/ \E fs \in ListsOf(FilterConfigs), faults \in FaultVectors, o \in BOOLEAN :
          MapFilters(fs, faults, o)
    \/ \E cs \in ListsOf(CharFilterConfigs), faults \in FaultVectors, o \in BOOLEAN :
          MapCharFilters(cs, faults, o)

Spec == Init /\ [][Next]_vars

(***************************************************************************)
(* Specification of the mappers with package creation switched off: single *)
(* tokenizers, filters and char filters, analyzers and field types.        *)
(***************************************************************************)
\* a fully qualified class name
StdQualified == Dict1("class", <<"org", ".", "solr", ".", "Std", "Token", "izer", "Factory">>)

AnalyzerTokenizers == {StdByClass, StdQualified, WhiteByName, FooTokenizer}

AnalyzerFilters == {LowerByName, SynByClass, StopByName, FooByName}

AnalyzerCharFilters == {HtmlStripByName, FooCharByClass}

\* an analyzer definition: each category is absent, mapped or unmapped
Part(key, values) == {EmptyMap} \cup { Dict1(key, v) : v \in values }

Merge(d1, d2) ==
    [k \in DOMAIN d1 \cup DOMAIN d2 |-> IF k \in DOMAIN d1 THEN d1[k] ELSE d2[k]]

SolrAnalyzers ==
    { Merge(t, Merge(f, c)) :
        t \in Part("tokenizer", {StdByClass, FooTokenizer}),
        f \in Part("filters", { <<LowerByName>>, <<LowerByName, FooByName>> }),
        c \in Part("charFilters", { <<HtmlStripByName>>, <<FooCharByClass>> }) }

GoodAnalyzer == Merge(Dict1("tokenizer", StdByClass), Dict1("filters", <<LowerByName>>))

BadTokenizerAnalyzer ==
    Merge(Dict1("tokenizer", FooTokenizer), Dict1("filters", <<LowerByName>>))

FieldTypeName == <<"text", "_", "a">>

FieldTypeClasses == {"solr.TextField", "solr.Custom"}

\* field types with one analyzer, and field types with an index and a query one
SolrFieldTypes ==
    { Merge(Dict2("name", FieldTypeName, "class", c), Dict1("analyzer", a)) :
        c \in FieldTypeClasses, a \in SolrAnalyzers }
    \cup
    { Merge(Dict2("name", FieldTypeName, "class", "solr.TextField"),
            Dict2("indexAnalyzer", i, "queryAnalyzer", q)) :
        i \in {GoodAnalyzer, BadTokenizerAnalyzer},
        q \in {GoodAnalyzer, BadTokenizerAnalyzer} }

AnalyzerInit ==
    /\ _migration_config \in
          { Merge(Dict1("create_package", FALSE), c) :
              c \in [{"expand_files_array", "skip_text_analysis_failure"} -> BOOLEAN] }
    /\ _filter_map = EmptyMap
    /\ _tokenizer_map = EmptyMap
    /\ _packages_map = EmptyMap
    /\ _field_types_map = EmptyMap
    /\ RemoteOff
    /\ nameCall = [kind |-> "off"]
    /\ DriversOff
    /\ copyFields = [phase |-> "off"]

MapTokenizer(solr_tokenizer, observed) ==
    Commit(map_tokenizer(MappingState, solr_tokenizer), "map_tokenizer", solr_tokenizer,
           observed)

MapAnalyzer(solr_analyzer, observed) ==
    Commit(_map_analyzer(MappingState, FieldTypeName, solr_analyzer, NoFaults),
           "_map_analyzer", solr_analyzer, observed)

MapFieldTypeAnalyzer(solr_field_type, observed) ==
    Commit(map_field_type_analyzer(MappingState, solr_field_type, NoFaults),
           "map_field_type_analyzer", solr_field_type, observed)

AnalyzerNext ==
    \/ \E t \in AnalyzerTokenizers, o \in BOOLEAN : MapTokenizer(t, o)
    \/ \E f \in AnalyzerFilters, o \in BOOLEAN : MapFilter(f, "none", o)
    \/ \E c \in AnalyzerCharFilters, o \in BOOLEAN : MapCharFilter(c, "none", o)
    \/ \E a \in SolrAnalyzers, o \in BOOLEAN : MapAnalyzer(a, o)
    \/ \E ft \in SolrFieldTypes, o \in BOOLEAN : MapFieldTypeAnalyzer(ft, o)

SpecAnalyzer == AnalyzerInit /\ [][AnalyzerNext]_vars

(***************************************************************************)
(* Claims about name resolution                                            *)
(***************************************************************************)
EndsWith(suffix, s) ==
    Len(s) >= Len(suffix) /\ SubSeq(s, Len(s) - Len(suffix) + 1, Len(s)) = suffix

StripSuffix(s) ==
    IF EndsWith(TokenizerFactory, s) THEN SubSeq(s, 1, Len(s) - Len(TokenizerFactory))
    ELSE IF EndsWith(TokenFilterFactory, s)
         THEN SubSeq(s, 1, Len(s) - Len(TokenFilterFactory))
    ELSE IF EndsWith(CharFilterFactory, s)
         THEN SubSeq(s, 1, Len(s) - Len(CharFilterFactory))
    ELSE s

LastSegment(class) == SplitDot(class)[Len(SplitDot(class))]

\* the lookup key the claim describes
ClaimedKey(config) ==
    IF Has(config, "name") THEN Lower(config["name"])
    ELSE Lower(StripSuffix(LastSegment(config["class"])))

NameActed == nameCall.kind \in {"tokenizer", "filter"}

\* C5: the lookup key is the explicit name lowercased when there is one, and
\* otherwise the last dot-separated segment of the class name with the factory
\* suffix removed, lowercased, for a class name of any number of segments.
C5_LookupKeyIsLastSegment ==
    NameActed => nameCall.res = Ok(ClaimedKey(nameCall.config))

(***************************************************************************)
(* Claims about the mappers                                                *)
(***************************************************************************)
IsPrefix(s, t) == Len(s) <= Len(t) /\ SubSeq(t, 1, Len(s)) = s

\* the lookup key the mapper called by the last operation resolves
ResolvedName(config) ==
    IF last.op = "map_tokenizer" THEN _get_tokenizer_name(config).val
    ELSE _get_filter_name(config).val

TableNames ==
    CASE last.op = "map_tokenizer" -> DOMAIN _tokenizer_mapping
      [] last.op \in {"_map_filter", "map_filters"} -> DOMAIN _filter_mapping
      [] last.op \in {"_map_char_filter", "map_char_filters"} ->
            DOMAIN _char_filter_mapping
      [] OTHER -> {}

TableType(name) ==
    CASE last.op = "map_tokenizer" -> _tokenizer_mapping[name].type
      [] last.op = "_map_filter" -> _filter_mapping[name].type
      [] OTHER -> _char_filter_mapping[name].type

TypedError ==
    CASE last.op = "map_tokenizer" -> "TokenizerMappingException"
      [] last.op \in {"_map_filter", "map_filters"} -> "FilterMappingException"
      [] last.op \in {"_map_char_filter", "map_char_filters"} ->
            "CharFilterMappingException"
      [] OTHER -> ""

Unmapped(config) == ResolvedName(config) \notin TableNames

\* the positions of the last input list whose element has no table entry
UnmappedPositions == { i \in 1..Len(last.input) : Unmapped(last.input[i]) }

FirstUnmapped == CHOOSE i \in UnmappedPositions : \A j \in UnmappedPositions : i <= j

\* caches, package files and the remote are as they were before the last call
NothingChanged == MappingState = last.pre

ListActed == last.op \in {"map_filters", "map_char_filters"}

SingleActed == last.op \in {"map_tokenizer", "_map_filter", "_map_char_filter"}

\* C1: a list passed to map_filters or map_char_filters with an element, at
\* any position, whose resolved name has no table entry makes the call fail
\* with the typed 'mapping not found' error, and the call fetches no file,
\* writes no file, calls no package operation and changes nothing.
C1_UnmappedElementStopsBeforeSideEffects ==
    (ListActed /\ UnmappedPositions # {}) =>
      /\ last.raised
      /\ last.exc = Exc(TypedError, ResolvedName(last.input[FirstUnmapped]),
                        MAPPING_NOT_FOUND)
      /\ last.calls = <<>>
      /\ NothingChanged

\* a package filter ahead of the unmapped one, with package creation on
C1_Witness ==
    /\ last.op = "map_filters"
    /\ last.input = <<SynByClass, FooByName>>
    /\ last.pre.config["create_package"]
    /\ last.pre.pkgs = EmptyMap
    /\ last.raised
    /\ last.calls = <<>>

\* C2: two source constructs with different source names that resolve to
\* identical target attribute sets produce one target construct: no two
\* constructs of the filter cache have the same type and the same attributes.
C2_OneConstructPerResolvedAttributeSet ==
    \A k1, k2 \in DOMAIN _filter_map :
       ( /\ _filter_map[k1].construct = "token_filter"
         /\ _filter_map[k2].construct = "token_filter"
         /\ _filter_map[k1].type = _filter_map[k2].type
         /\ _filter_map[k1].attrs = _filter_map[k2].attrs ) => k1 = k2

\* C3: a tokenizer, filter or char-filter definition whose resolved name has
\* no entry in the table of its kind makes the mapper fail with the typed
\* error of that kind, carrying the resolved name and MAPPING_NOT_FOUND, and
\* no cache changes.
C3_UnmappedRaisesTypedError ==
    (SingleActed /\ Unmapped(last.input)) =>
      /\ last.raised
      /\ last.exc = Exc(TypedError, ResolvedName(last.input), MAPPING_NOT_FOUND)
      /\ _filter_map = last.pre.filter_map
      /\ _tokenizer_map = last.pre.tokenizer_map
      /\ _packages_map = last.pre.packages_map

\* an unmapped tokenizer met when the caches are not empty
C3_Witness ==
    /\ last.op = "map_tokenizer"
    /\ last.input = FooTokenizer
    /\ last.raised
    /\ last.exc.type = "TokenizerMappingException"
    /\ _tokenizer_map # EmptyMap
    /\ _filter_map # EmptyMap

\* C4: a tokenizer, filter or char-filter definition whose lowercased,
\* factory-suffix-stripped name has a table entry is mapped without error to
\* a construct of the type that entry declares.
C4_MappedNameGetsTableType ==
    (SingleActed /\ ClaimedKey(last.input) \in TableNames) =>
      /\ ~last.raised
      /\ last.val.type = TableType(ClaimedKey(last.input))

\* whether the tokenizer, the filter list, the char-filter list of an analyzer
\* definition has an element without table entry
TokenizerFails(a) ==
    Has(a, "tokenizer")
      /\ ~Has(_tokenizer_mapping, _get_tokenizer_name(a["tokenizer"]).val)

FiltersFail(a) ==
    Has(a, "filters")
      /\ \E i \in 1..Len(a["filters"]) :
            ~Has(_filter_mapping, _get_filter_name(a["filters"][i]).val)

CharFiltersFail(a) ==
    Has(a, "charFilters")
      /\ \E i \in 1..Len(a["charFilters"]) :
            ~Has(_char_filter_mapping, _get_filter_name(a["charFilters"][i]).val)

AnalyzerFails(a) == TokenizerFails(a) \/ FiltersFail(a) \/ CharFiltersFail(a)

\* the sub-exceptions of an analyzer error are set for the failed categories
SubExceptionsMatch(exc, a) ==
    /\ exc.type = "AnalyzerMappingException"
    /\ (exc.tokenizer_exception # NoExc) <=> TokenizerFails(a)
    /\ (exc.filter_exception # NoExc) <=> FiltersFail(a)
    /\ (exc.char_filter_exception # NoExc) <=> CharFiltersFail(a)
    /\ exc.tokenizer_exception # NoExc =>
          exc.tokenizer_exception.type = "TokenizerMappingException"
    /\ exc.filter_exception # NoExc =>
          exc.filter_exception.type = "FilterMappingException"
    /\ exc.char_filter_exception # NoExc =>
          exc.char_filter_exception.type = "CharFilterMappingException"

\* the later categories were attempted: what they map is in the caches
LaterCategoriesAttempted(a) ==
    /\ (Has(a, "filters") /\ ~FiltersFail(a)) =>
          \A i \in 1..Len(a["filters"]) :
             Has(_filter_map, _get_filter_name(a["filters"][i]).val
                                \o get_hash(a["filters"][i]))
    /\ (Has(a, "charFilters") /\ ~CharFiltersFail(a)) =>
          \A i \in 1..Len(a["charFilters"]) :
             \E k \in DOMAIN _filter_map :
                /\ _filter_map[k].construct = "dict"
                /\ IsPrefix(_get_filter_name(a["charFilters"][i]).val, k)

\* C6: _map_analyzer attempts the tokenizer, the filter list and the
\* char-filter list whether or not an earlier category failed; when a category
\* failed it raises one AnalyzerMappingException whose tokenizer_exception,
\* filter_exception and char_filter_exception are set exactly for the failed
\* categories, and when none failed it returns an analyzer.
C6_AnalyzerAggregatesFailures ==
    last.op = "_map_analyzer" =>
      /\ last.raised <=> AnalyzerFails(last.input)
      /\ last.raised =>
           /\ SubExceptionsMatch(last.exc, last.input)
           /\ last.exc.name = FieldTypeName
      /\ ~last.raised => last.val.construct = "analyzer"
      /\ LaterCategoriesAttempted(last.input)

\* the tokenizer and the char filter fail around a filter list that maps
C6_Witness ==
    /\ last.op = "_map_analyzer"
    /\ last.raised
    /\ last.exc.tokenizer_exception # NoExc
    /\ last.exc.filter_exception = NoExc
    /\ last.exc.char_filter_exception # NoExc
    /\ Has(last.input, "filters")
    /\ _filter_map # last.pre.filter_map

\* the roles of a field type in the order map_analyzer takes them
Roles(ft) ==
    (IF Has(ft, "analyzer") THEN << <<"analyzer", <<>> >> >> ELSE <<>>)
    \o (IF Has(ft, "indexAnalyzer") THEN << <<"indexAnalyzer", <<"_index">> >> >>
        ELSE <<>>)
    \o (IF Has(ft, "queryAnalyzer") THEN << <<"queryAnalyzer", <<"_query">> >> >>
        ELSE <<>>)

FailingRoles(ft) == { i \in 1..Len(Roles(ft)) : AnalyzerFails(ft[Roles(ft)[i][1]]) }

FirstFailingRole(ft) ==
    Roles(ft)[CHOOSE i \in FailingRoles(ft) : \A j \in FailingRoles(ft) : i <= j]

\* C7: a field type with an analyzer that fails makes map_field_type_analyzer
\* raise FieldTypeMappingException with the field type's name, wrapping the
\* AnalyzerMappingException of the failing role; an unmapped tokenizer with
\* mapped filters gives tokenizer_exception set and filter_exception unset.
C7_FieldTypeWrapsAnalyzerError ==
    last.op = "map_field_type_analyzer" =>
      /\ last.raised <=> FailingRoles(last.input) # {}
      /\ last.raised =>
           /\ last.exc.type = "FieldTypeMappingException"
           /\ last.exc.name = last.input["name"]
           /\ last.exc.analyzer_exception.name =
                 last.input["name"] \o FirstFailingRole(last.input)[2]
           /\ SubExceptionsMatch(last.exc.analyzer_exception,
                                 last.input[FirstFailingRole(last.input)[1]])

\* an unmapped tokenizer in front of a mapped filter
C7_Witness ==
    /\ last.op = "map_field_type_analyzer"
    /\ Has(last.input, "analyzer")
    /\ last.input["analyzer"] = BadTokenizerAnalyzer
    /\ last.raised
    /\ last.exc.type = "FieldTypeMappingException"
    /\ last.exc.analyzer_exception.tokenizer_exception # NoExc
    /\ last.exc.analyzer_exception.filter_exception = NoExc

(***************************************************************************)
(* Claims about the package lifecycle                                      *)
(***************************************************************************)
PkgActed == last.op = "create_and_associate_package"

IsMutatingCall(call) ==
    call \in {"upload_file", "create_package", "update_package", "associate_package"}

\* the calls of the last operation that change the remote, in order
MutatingCalls == SelectSeq(last.calls, IsMutatingCall)

UploadUpdateAssociateCalls == <<"upload_file", "update_package", "associate_package">>

\* C10: on a package name that already exists, a local file whose checksum
\* equals the stored object's digest makes the call perform no upload, no
\* update_package and no associate_package, and return the package id; a
\* differing digest makes it perform upload, then update_package, then
\* associate_package, in that order (all three whenever it returns, and a
\* prefix of them when a step raises).
C10_IdempotentOnUnchangedContent ==
    (PkgActed /\ last.existed) =>
      /\ last.digest = "equal" =>
           /\ MutatingCalls = <<>>
           /\ last.fault \notin {"describe", "head403"} =>
                ~last.raised /\ last.val = PackageID(last.package_name)
      /\ last.digest = "differs" =>
           /\ IsPrefix(MutatingCalls, UploadUpdateAssociateCalls)
           /\ ~last.raised => MutatingCalls = UploadUpdateAssociateCalls
           /\ last.fault \in {"none", "create", "association_failed"} => ~last.raised
           /\ last.fault \notin {"describe", "head403", "bucket404", "bucket403"} =>
                MutatingCalls # <<>>

\* both cases on one package: the content was uploaded by a call that found
\* a differing digest, and a later call on the same file found it equal
C10_Witness ==
    /\ PkgActed
    /\ last.existed
    /\ last.digest = "equal"
    /\ last.fault = "none"
    /\ MutatingCalls = <<>>
    /\ Len(package_files[PackageFile(last.package_name)]) = 2

(***************************************************************************)
(* Claims about copy fields                                                *)
(***************************************************************************)
LastCopy == copyFields.processed[Len(copyFields.processed)]

CopyActed == copyFields.phase = "copy" /\ copyFields.processed # <<>>

\* the destinations of the relations of source src that were mapped, in order
DestsOf(src) ==
    LET Mapped(p) == ~p.raised /\ p.rel.source = src
        sel == SelectSeq(copyFields.processed, Mapped)
    IN [i \in 1..Len(sel) |-> sel[i].rel.dest]

\* C8: a copy-field relation whose source or destination is not a resolved
\* field fails with CopyFieldMappingException (MAPPING_NOT_FOUND, the source
\* as name), creates no field, leaves every field definition and the
\* source-to-destinations tracking map as they were, and the loop counts
\* exactly one more copy-field error and records the exception.
C8_UnresolvedEndpointFails ==
    (CopyActed /\ (LastCopy.rel.source \notin ResolvedFields
                   \/ LastCopy.rel.dest \notin ResolvedFields))
    => LET c == copyFields
       IN /\ LastCopy.raised
          /\ c.copy_field_exception_list # <<>>
          /\ c.copy_field_exception_list[Len(c.copy_field_exception_list)] =
                CopyFieldMappingException(LastCopy.rel.source, MAPPING_NOT_FOUND,
                                          LastCopy.rel.source)
          /\ c.all_fields = c.pre.all_fields
          /\ c.field_copy_to = c.pre.field_copy_to
          /\ c.index_fields = c.pre.index_fields
          /\ DOMAIN c.all_fields = ResolvedFields
          /\ c.copy_field_error = c.pre.copy_field_error + 1
          /\ Len(c.copy_field_exception_list) = c.copy_field_error

\* a failing relation processed after some field already got a copy_to
C8_Witness ==
    /\ CopyActed
    /\ LastCopy.raised
    /\ LastCopy.rel.source \in ResolvedFields
    /\ LastCopy.rel.dest \notin ResolvedFields
    /\ Has(copyFields.all_fields[LastCopy.rel.source], "copy_to")

\* C9: after any sequence of map_copy_field calls, a source with one mapped
\* destination has copy_to equal to that destination as a scalar, a source
\* with n >= 2 mapped destinations has copy_to equal to the flat list of those
\* n names in processing order, and a source with none has no copy_to.
C9_CopyToShape ==
    CopyActed =>
      \A src \in DOMAIN copyFields.all_fields :
        LET def == copyFields.all_fields[src]
            dsts == DestsOf(src)
        IN /\ Len(dsts) = 0 => ~Has(def, "copy_to")
           /\ Len(dsts) = 1 => Has(def, "copy_to") /\ def["copy_to"] = Scalar(dsts[1])
           /\ Len(dsts) >= 2 =>
                /\ Has(def, "copy_to")
                /\ def["copy_to"].isList
                /\ def["copy_to"].items = [i \in 1..Len(dsts) |-> Item(dsts[i])]
           /\ copyFields.index_fields[src] = def

\* a source copied to three destinations holds a 3-element flat list
C9_Witness ==
    /\ CopyActed
    /\ \E src \in DOMAIN copyFields.all_fields :
         /\ Len(DestsOf(src)) = 3
         /\ Has(copyFields.all_fields[src], "copy_to")
         /\ Len(copyFields.all_fields[src]["copy_to"].items) = 3
         /\ \A i \in 1..3 : ~copyFields.all_fields[src]["copy_to"].items[i].nested

(***************************************************************************)
(* Status polling of the package lifecycle.  One lifecycle operation       *)
(* issues its request and then polls: every round reads the status the     *)
(* service reports for the package and returns, raises, or sleeps and      *)
(* polls again.  The service's answer to a round is a status, "absent"     *)
(* (the package is not in the answer) or "error" (the request fails).      *)
(* A polling function polls again by calling itself inside its try block,  *)
(* so every round is one frame deeper on the interpreter's stack.          *)
(***************************************************************************)
OPENSEARCH_PACKAGE_DISSOCIATION_FAILED == "OpenSearch package dissociation failed"

\* PackageStatus of describe_packages
PackageStatuses ==
    {"COPYING", "COPY_FAILED", "VALIDATING", "VALIDATION_FAILED", "AVAILABLE",
     "DELETING", "DELETED", "DELETE_FAILED"}

\* DomainPackageStatus of list_packages_for_domain
DomainPackageStatuses ==
    {"ASSOCIATING", "ASSOCIATION_FAILED", "ACTIVE", "DISSOCIATING",
     "DISSOCIATION_FAILED"}

\* one round of _wait_for_package_available
_wait_for_package_available(response) ==
    IF response = "error" THEN "raise"
    ELSE IF response = "absent" THEN "return"
    ELSE IF response = "AVAILABLE" THEN "return"
    ELSE IF response \in {"COPY_FAILED", "VALIDATION_FAILED", "DELETE_FAILED"}
    THEN "raise"
    ELSE "again"

\* one round of _wait_for_association
_wait_for_association(response) ==
    IF response = "error" THEN "raise"
    ELSE IF response = "absent" THEN "return"
    ELSE IF response = "ACTIVE" THEN "return"
    ELSE IF response = "ASSOCIATION_FAILED" THEN "return"
    ELSE "again"

\* one round of _wait_for_dissociation
_wait_for_dissociation(response) ==
    IF response = "error" THEN "raise"
    ELSE IF response = "absent" THEN "return"
    ELSE IF response = "AVAILABLE" THEN "return"
    ELSE IF response = "DISSOCIATION_FAILED" THEN "return"
    ELSE "again"

LifecycleOperations ==
    {"_create_package", "_update_package", "_associate_package", "_dissociate_package"}

\* the polling function an operation waits in
WaitRound(op, response) ==
    IF op \in {"_create_package", "_update_package"}
    THEN _wait_for_package_available(response)
    ELSE IF op = "_associate_package" THEN _wait_for_association(response)
    ELSE _wait_for_dissociation(response)

\* what a round can read
Responses(op) ==
    {"error", "absent"} \cup
    (IF op \in {"_create_package", "_update_package"}
     THEN PackageStatuses ELSE DomainPackageStatuses)

\* the error an operation wraps every failure in
LifecycleFailure(op, package) ==
    OpenSearchMappingException(package,
        CASE op = "_create_package" -> OPENSEARCH_PACKAGE_CREATION_FAILED
          [] op = "_update_package" -> OPENSEARCH_PACKAGE_UPDATE_FAILED
          [] op = "_associate_package" -> OPENSEARCH_PACKAGE_ASSOCIATION_FAILED
          [] OTHER -> OPENSEARCH_PACKAGE_DISSOCIATION_FAILED)

\* sys.getrecursionlimit() of the interpreter: the frames a polling
\* function can nest before its call of itself raises RecursionError
RecursionLimit == 1000

PolledPackage == <<"F", "syn">>

PollInit ==
    /\ polling = [op |-> "idle", pc |-> "idle", seen |-> <<>>, depth |-> 0, exc |-> NoExc]
    /\ migration = [phase |-> "off"]
    /\ export = [phase |-> "off"]
    /\ nameCall = [kind |-> "off"]
    /\ copyFields = [phase |-> "off"]
    /\ RemoteOff
    /\ HelpersOff

\* the operation issues its request; the service accepts or refuses it
CallLifecycleOperation(op, accepted) ==
    /\ polling.pc # "polling"
    /\ polling' = IF accepted
                  THEN [op |-> op, pc |-> "polling", seen |-> <<>>, depth |-> 0,
                        exc |-> NoExc]
                  ELSE [op |-> op, pc |-> "raised", seen |-> <<>>, depth |-> 0,
                        exc |-> LifecycleFailure(op, PolledPackage)]
    /\ UNCHANGED <<migration, export, nameCall, copyFields, remote, helpers>>

\* the outcome of the round at a depth: a round that would poll again
\* calls itself, which raises RecursionError when the stack is full; the
\* except clause of the round turns it into the operation's error
RoundOutcome(op, response, depth) ==
    IF WaitRound(op, response) = "again" /\ depth >= RecursionLimit
    THEN "raise"
    ELSE WaitRound(op, response)

\* one round of the operation's polling function; seen is the response of
\* the latest round
Poll(response) ==
    /\ polling.pc = "polling"
    /\ response \in Responses(polling.op)
    /\ polling' =
          [polling EXCEPT
             !.seen = <<response>>,
             !.depth = @ + 1,
             !.pc = CASE RoundOutcome(polling.op, response, polling.depth + 1) = "return"
                           -> "returned"
                      [] RoundOutcome(polling.op, response, polling.depth + 1) = "raise"
                           -> "raised"
                      [] OTHER -> "polling",
             !.exc = IF RoundOutcome(polling.op, response, polling.depth + 1) = "raise"
                     THEN LifecycleFailure(polling.op, PolledPackage) ELSE NoExc]
    /\ UNCHANGED <<migration, export, nameCall, copyFields, remote, helpers>>

PollNext ==
    \/ \E op \in LifecycleOperations, accepted \in BOOLEAN :
          CallLifecycleOperation(op, accepted)
    \/ \E response \in PackageStatuses \cup DomainPackageStatuses \cup {"error", "absent"} :
          Poll(response)

SpecPoll == PollInit /\ [][PollNext]_vars

(***************************************************************************)
(* Claims: status polling                                                  *)
(***************************************************************************)
\* the failed terminal statuses of the polling an operation waits in
FailedTerminal(op) ==
    IF op \in {"_create_package", "_update_package"}
    THEN {"COPY_FAILED", "VALIDATION_FAILED", "DELETE_FAILED"}
    ELSE IF op = "_associate_package" THEN {"ASSOCIATION_FAILED"}
    ELSE {"DISSOCIATION_FAILED"}

\* the status that ends the wait with success
SuccessStatus(op) == IF op = "_associate_package" THEN "ACTIVE" ELSE "AVAILABLE"

Polled == polling.op \notin {"off", "idle"} /\ polling.seen # <<>>

LastResponse == polling.seen[Len(polling.seen)]

\* C11: a round that reads a failed terminal status (COPY_FAILED,
\* VALIDATION_FAILED or DELETE_FAILED while waiting for availability,
\* ASSOCIATION_FAILED while waiting for association, DISSOCIATION_FAILED
\* while waiting for dissociation) makes the lifecycle operation raise
\* OpenSearchMappingException; a round that reads any other status but the
\* awaited one leaves the operation polling.
C11_FailedTerminalStatusRaises ==
    Polled =>
       /\ LastResponse \in FailedTerminal(polling.op) =>
             /\ polling.pc = "raised"
             /\ polling.exc.type = "OpenSearchMappingException"
       /\ ( /\ LastResponse \in PackageStatuses \cup DomainPackageStatuses
            /\ LastResponse \notin FailedTerminal(polling.op)
            /\ LastResponse # SuccessStatus(polling.op) ) =>
             polling.pc = "polling"

(***************************************************************************)
(* Specification of one run with package creation on, whose filters and    *)
(* char filters name the same dictionary file.                             *)
(***************************************************************************)
MapSynByClass == Dict2("class", <<"solr", ".", "Map", "Char", "Filter", "Factory">>,
                       "mapping", <<"syn", ".", "txt">>)

\* filter definitions that share syn.txt
SharedFileFilters == {SynByClass, SynGraphByName}

SharedFileCharFilters == {MapSynByClass}

\* the remote's answers in this run
SharedFileFaults == {"none", "opaque_etag", "association_failed"}

SharedFileInit ==
    /\ _migration_config \in
          { Merge(Dict1("create_package", TRUE), c) :
              c \in [{"expand_files_array"} -> BOOLEAN] }
    /\ _filter_map = EmptyMap
    /\ _tokenizer_map = EmptyMap
    /\ _packages_map = EmptyMap
    /\ _field_types_map = EmptyMap
    /\ RemoteOff
    /\ nameCall = [kind |-> "off"]
    /\ copyFields = [phase |-> "off"]
    /\ DriversOff

SharedFileNext ==
    \/ \E f \in SharedFileFilters, fault \in SharedFileFaults, o \in BOOLEAN :
          MapFilter(f, fault, o)
    \/ \E c \in SharedFileCharFilters, fault \in SharedFileFaults, o \in BOOLEAN :
          MapCharFilter(c, fault, o)

SpecSharedFile == SharedFileInit /\ [][SharedFileNext]_vars

(***************************************************************************)
(* Claims: package state within a run                                      *)
(***************************************************************************)
Active(packages, n) == Has(packages, n) /\ packages[n].domain = "ACTIVE"

\* C12: a package that is ACTIVE stays ACTIVE through every later operation
\* of the run, also when another filter or char filter names the same
\* dictionary file.
C12_ActivePackageStaysActive ==
    [][\A n \in DOMAIN opensearch_packages :
          Active(opensearch_packages, n) => Active(opensearch_packages', n)]_vars

(***************************************************************************)
(* Fields and dynamic fields (FieldHelper, DynamicFieldHelper).  A field   *)
(* definition is a function from attribute names to values; the name of a  *)
(* field is an atom, the name of a field type is a sequence of atoms.      *)
(***************************************************************************)
FieldMappingException(name, message, field_type) ==
    [type |-> "FieldMappingException", name |-> name, message |-> message,
     field_type |-> field_type]

DynamicFieldMappingException(name, message, field_type) ==
    [type |-> "DynamicFieldMappingException", name |-> name, message |-> message,
     field_type |-> field_type]

\* attributes.json: source attribute -> target attribute
_attributes_mapping ==
    [k \in {"stored", "indexed"} |-> IF k = "stored" THEN "store" ELSE "index"]

\* FieldTypeHelper.get_field_type
get_field_type(field_types_map, field_type) ==
    IF Has(field_types_map, field_type) THEN field_types_map[field_type] ELSE None

\* dict.pop(key, None) for every key of keys
Pop(d, keys) == [k \in DOMAIN d \ keys |-> d[k]]

\* {self._attributes_mapping[k]: v for k, v in solr_field.items() if k in the table}
RenamedAttrs(solr_field) ==
    [a \in { _attributes_mapping[k] : k \in DOMAIN solr_field \cap DOMAIN _attributes_mapping } |->
        solr_field[CHOOSE k \in DOMAIN solr_field \cap DOMAIN _attributes_mapping :
                      _attributes_mapping[k] = a]]

\* FieldHelper._setup_analyzers
_setup_analyzers(attrs, field_field_type, all_analyzers) ==
    Let(IF Has(all_analyzers, field_field_type)
        THEN SetAttr(attrs, "analyzer", field_field_type) ELSE attrs, LAMBDA a1 :
    Let(IF Has(all_analyzers, field_field_type \o <<"_index">>)
        THEN SetAttr(a1, "analyzer", field_field_type \o <<"_index">>) ELSE a1,
        LAMBDA a2 :
    IF Has(all_analyzers, field_field_type \o <<"_query">>)
    THEN SetAttr(a2, "search_analyzer", field_field_type \o <<"_query">>) ELSE a2))

\* FieldHelper._cleanup_field_attrs
_cleanup_field_attrs(attrs, field_type) ==
    IF field_type = "geo_shape" THEN Pop(attrs, {"index", "store", "doc_values"})
    ELSE IF field_type = "nested" THEN Pop(attrs, {"index", "store"})
    ELSE attrs

\* a field mapper that gives a field of an unbound type a default mapping
Mut_map_field(st, all_analyzers, solr_field) ==
    Returns(st, [name |-> solr_field["name"],
                 attrs |-> SetAttr(RenamedAttrs(solr_field), "type", "text")])

\* FieldHelper.map_field; val is (name, attrs)
map_field(st, all_analyzers, solr_field) ==
    Let(get_field_type(st.field_types_map, solr_field["type"]), LAMBDA field_type :
    IF field_type = None
    THEN Raises(st, FieldMappingException(solr_field["name"], MAPPING_NOT_FOUND,
                                          solr_field["type"]))
    ELSE Returns(st,
           [name |-> solr_field["name"],
            attrs |-> _cleanup_field_attrs(
                         _setup_analyzers(SetAttr(RenamedAttrs(solr_field), "type",
                                                  field_type),
                                          solr_field["type"], all_analyzers),
                         field_type)]))

\* DynamicFieldHelper.map_dynamic_field; val is {pattern: {match, mapping}}
map_dynamic_field(st, all_analyzers, solr_dynamic_field) ==
    Let(solr_dynamic_field["name"], LAMBDA pattern :
    Let(solr_dynamic_field["type"], LAMBDA field_type :
    Let(get_field_type(st.field_types_map, field_type), LAMBDA dynamic_field_type :
    IF dynamic_field_type = None
    THEN Raises(st, DynamicFieldMappingException(pattern, MAPPING_NOT_FOUND, field_type))
    ELSE
    Let(SetAttr(RenamedAttrs(solr_dynamic_field), "type", dynamic_field_type),
        LAMBDA mapping :
    Let(IF Has(all_analyzers, field_type \o <<"_index">>) \/ Has(all_analyzers, field_type)
        THEN SetAttr(mapping, "analyzer", field_type) ELSE mapping, LAMBDA m1 :
    Let(IF Has(all_analyzers, field_type \o <<"s_query">>)
        THEN SetAttr(m1, "search_analyzer", field_type \o <<"s_query">>) ELSE m1,
        LAMBDA m2 :
    Returns(st, [pattern |-> pattern, match |-> pattern, mapping |-> m2])))))))

(***************************************************************************)
(* Schema orchestration (Solr2OSMigrate.migrate_schema).  The source       *)
(* schema hands each loop its items one at a time; a step of the model is  *)
(* one iteration of a loop, or the end of a loop's list.                   *)
(***************************************************************************)
\* s.replace(needle, '')
RECURSIVE RemoveAll(_, _)
RemoveAll(needle, s) ==
    IF ~Contains(needle, s) THEN s
    ELSE SubSeq(s, 1, Find(needle, s) - 1)
         \o RemoveAll(needle, SubSeq(s, Find(needle, s) + Len(needle), Len(s)))

\* config.get('name') or config.get('class', '').split('.')[-1].replace(suffix, '')
DetailName(config, suffix) ==
    IF Has(config, "name") /\ config["name"] # <<>> THEN config["name"]
    ELSE IF ~Has(config, "class") THEN <<>>
    ELSE RemoveAll(suffix, SplitDot(config["class"])[Len(SplitDot(config["class"]))])

Detail(kind, name, status) == [kind |-> kind, name |-> name, status |-> status]

\* the rows one analyzer of a mapped field type adds to the report
AnalyzerDetails(analyzer_config) ==
    (IF Has(analyzer_config, "tokenizer")
     THEN <<Detail("tokenizer", DetailName(analyzer_config["tokenizer"],
                                           TokenizerFactory), "success")>>
     ELSE <<>>)
    \o (IF Has(analyzer_config, "filters")
        THEN [i \in 1..Len(analyzer_config["filters"]) |->
                Detail("filter", DetailName(analyzer_config["filters"][i],
                                            TokenFilterFactory), "success")]
        ELSE <<>>)
    \o (IF Has(analyzer_config, "charFilters")
        THEN [i \in 1..Len(analyzer_config["charFilters"]) |->
                Detail("char_filter", DetailName(analyzer_config["charFilters"][i],
                                                 CharFilterFactory), "success")]
        ELSE <<>>)

\* the rows of a mapped field type: its analyzer, indexAnalyzer, queryAnalyzer
SuccessDetails(solr_field_type) ==
    (IF Has(solr_field_type, "analyzer")
     THEN AnalyzerDetails(solr_field_type["analyzer"]) ELSE <<>>)
    \o (IF Has(solr_field_type, "indexAnalyzer")
        THEN AnalyzerDetails(solr_field_type["indexAnalyzer"]) ELSE <<>>)
    \o (IF Has(solr_field_type, "queryAnalyzer")
        THEN AnalyzerDetails(solr_field_type["queryAnalyzer"]) ELSE <<>>)

\* the rows of a field type whose analyzer failed, from e.analyzer_exception
ErrorDetails(e) ==
    (IF e.analyzer_exception.tokenizer_exception # NoExc
     THEN <<Detail("tokenizer", e.analyzer_exception.tokenizer_exception.name, "error")>>
     ELSE <<>>)
    \o (IF e.analyzer_exception.filter_exception # NoExc
        THEN <<Detail("filter", e.analyzer_exception.filter_exception.name, "error")>>
        ELSE <<>>)
    \o (IF e.analyzer_exception.char_filter_exception # NoExc
        THEN <<Detail("char_filter", e.analyzer_exception.char_filter_exception.name,
                      "error")>>
        ELSE <<>>)

\* opensearch_client.add_analyzer for every analyzer of a list
AddAnalyzers(all_analyzers, analyzers) ==
    [n \in DOMAIN all_analyzers \cup { analyzers[i].name : i \in DOMAIN analyzers } |->
        IF \E i \in DOMAIN analyzers : analyzers[i].name = n
        THEN analyzers[CHOOSE i \in DOMAIN analyzers :
                          /\ analyzers[i].name = n
                          /\ \A j \in DOMAIN analyzers : analyzers[j].name = n => j <= i]
        ELSE all_analyzers[n]]

\* the loops of migrate_schema, in the order it runs them
Loops == <<"fieldTypes", "fields", "dynamicFields", "copyFields">>

LoopIndex(phase) == CHOOSE i \in 1..Len(Loops) : Loops[i] = phase

\* the phase after a loop's list is exhausted
NextPhase(phase) ==
    IF LoopIndex(phase) < Len(Loops) THEN Loops[LoopIndex(phase) + 1] ELSE "done"

\* Report.__init__ and the index the client starts with
NewMigration ==
    [phase |-> "fieldTypes",
     field_types_solr |-> 0, field_types_os |-> 0, field_types_error |-> 0,
     field_solr |-> 0, field_os |-> 0, field_error |-> 0,
     dynamic_field_solr |-> 0, dynamic_field_os |-> 0, dynamic_field_error |-> 0,
     copy_field_solr |-> 0, copy_field_os |-> 0, copy_field_error |-> 0,
     field_type_exception_list |-> <<>>, field_exception_list |-> <<>>,
     dynamic_field_exception_list |-> <<>>, copy_field_exception_list |-> <<>>,
     details |-> <<>>,
     analyzer |-> EmptyMap, properties |-> EmptyMap, dynamic_templates |-> <<>>,
     all_fields |-> EmptyMap, field_copy_to |-> EmptyMap,
     attempts |-> <<>>,
     last |-> [loop |-> "none"]]

\* what the run remembers of its last iteration
Iteration(loop, item, r) ==
    [loop |-> loop, item |-> item, raised |-> r.raised, exc |-> r.exc,
     analyzer |-> migration.analyzer, properties |-> migration.properties,
     dynamic_templates |-> migration.dynamic_templates,
     field_types_map |-> _field_types_map,
     field_types_os |-> migration.field_types_os,
     field_types_error |-> migration.field_types_error]

\* items of the source schema the run has taken so far
Attempted == Len(migration.attempts)

\* items of one source schema
MaxItems == 5

\* field types of one source schema
MaxFieldTypes == 2

\* field types of the source schema
TextA == Merge(Dict2("name", <<"text", "_", "a">>, "class", "solr.TextField"),
               Dict1("analyzer", GoodAnalyzer))

\* its tokenizer has no table entry
TextB == Merge(Dict2("name", <<"text", "_", "b">>, "class", "solr.TextField"),
               Dict1("analyzer", BadTokenizerAnalyzer))

\* its class has no entry in field_data_types.json
Cust == Dict2("name", <<"cust">>, "class", "solr.Custom")

\* its tokenizer definition has neither name nor class
TextM == Merge(Dict2("name", <<"text", "_", "m">>, "class", "solr.TextField"),
               Dict1("analyzer", Dict1("tokenizer", Dict1("rule", <<"std">>))))

\* its stop filter reads a dictionary file
TextS == Merge(Dict2("name", <<"text", "_", "s">>, "class", "solr.TextField"),
               Dict1("analyzer", Dict1("filters", <<StopByName>>)))

\* an index and a query analyzer
TextQ == Merge(Dict2("name", <<"text", "_", "q">>, "class", "solr.TextField"),
               Dict2("indexAnalyzer", GoodAnalyzer, "queryAnalyzer", GoodAnalyzer))

\* its index analyzer maps, the tokenizer of its query analyzer has no table
\* entry
TextH == Merge(Dict2("name", <<"text", "_", "h">>, "class", "solr.TextField"),
               Dict2("indexAnalyzer", GoodAnalyzer, "queryAnalyzer",
                     BadTokenizerAnalyzer))

SchemaFieldTypes == {TextA, TextB, Cust, TextM, TextS, TextQ, TextH}

\* the source client fails to fetch a dictionary file
FetchFails == [filters |-> [i \in 1..MaxFilters |-> "solr_file"],
               charFilters |-> [i \in 1..MaxFilters |-> "none"]]

SchemaFields ==
    { Dict3("name", "title", "type", <<"text", "_", "a">>, "stored", TRUE),
      Dict2("name", "body", "type", <<"text", "_", "b">>),
      Dict2("name", "ghost", "type", <<"nope">>) }

SchemaDynamicFields ==
    { Dict3("name", "*_t", "type", <<"text", "_", "q">>, "indexed", TRUE),
      Dict2("name", "*_x", "type", <<"text", "_", "b">>) }

SchemaCopyFields ==
    { [source |-> "title", dest |-> "body"], [source |-> "ghost", dest |-> "title"] }

MigrateInit ==
    /\ migration = NewMigration
    /\ _migration_config \in
          { Merge(Dict2("create_package", FALSE, "expand_files_array", TRUE), c) :
              c \in [{"skip_text_analysis_failure", "map_fields_on_analyzer_failure"}
                       -> BOOLEAN] }
    /\ _filter_map = EmptyMap
    /\ _tokenizer_map = EmptyMap
    /\ _packages_map = EmptyMap
    /\ _field_types_map = EmptyMap
    /\ RemoteOff
    /\ nameCall = [kind |-> "off"]
    /\ copyFields = [phase |-> "off"]
    /\ polling = [op |-> "off"]
    /\ export = [phase |-> "off"]

\* _schema_config.get(key, False)
ConfigFlag(key) == Has(_migration_config, key) /\ _migration_config[key]

\* whether the except clause of a loop catches the outcome r of its item:
\* FieldTypeMappingException, FieldMappingException, and Exception twice
LoopCatches(loop, r) ==
    /\ r.raised
    /\ loop = "fieldTypes" => r.exc.type = "FieldTypeMappingException"
    /\ loop = "fields" => r.exc.type = "FieldMappingException"

\* a loop that ends at the first item that raises
Mut_PhaseAfter(loop, r) == IF r.raised THEN NextPhase(loop) ELSE loop

\* where migrate_schema stands after an iteration: an error the loop does not
\* catch leaves the loop and migrate_schema
PhaseAfter(loop, r) == IF r.raised /\ ~LoopCatches(loop, r) THEN "aborted" ELSE loop

\* the analyzers of the roles of a field type that map without error
RolesMappedAlone(solr_field_type) ==
    LET mapped(role) ==
           /\ role.kept
           /\ Has(solr_field_type, role.key)
           /\ ~_map_analyzer(MappingState, solr_field_type["name"] \o role.suffix,
                             solr_field_type[role.key], NoFaults).raised
        roles == SelectSeq(AnalyzerRoles, mapped)
    IN [i \in 1..Len(roles) |->
          _map_analyzer(MappingState, solr_field_type["name"] \o roles[i].suffix,
                        solr_field_type[roles[i].key], NoFaults).val]

\* an iteration that adds the analyzer of every role that maps, whether or
\* not another role of the field type fails
Mut_FieldTypeIteration(solr_field_type, r) ==
    /\ _filter_map' = r.st.filter_map
    /\ _tokenizer_map' = r.st.tokenizer_map
    /\ _packages_map' = r.st.packages_map
    /\ _field_types_map' = r.st.field_types_map
    /\ migration' =
          [migration EXCEPT
             !.field_types_solr = @ + 1,
             !.attempts = Append(@, "fieldTypes"),
             !.last = Iteration("fieldTypes", solr_field_type, r),
             !.analyzer = AddAnalyzers(@, RolesMappedAlone(solr_field_type)),
             !.field_types_os =
                 IF ~r.raised THEN @ + 1
                 ELSE IF LoopCatches("fieldTypes", r)
                         /\ ConfigFlag("map_fields_on_analyzer_failure")
                 THEN @ + 1 ELSE @,
             !.field_types_error =
                 IF LoopCatches("fieldTypes", r)
                    /\ ~ConfigFlag("map_fields_on_analyzer_failure")
                 THEN @ + 1 ELSE @,
             !.field_type_exception_list =
                 IF LoopCatches("fieldTypes", r) THEN Append(@, r.exc) ELSE @,
             !.details =
                 IF ~r.raised THEN @ \o SuccessDetails(solr_field_type)
                 ELSE IF LoopCatches("fieldTypes", r)
                 THEN @ \o ErrorDetails(r.exc) ELSE @,
             !.phase = PhaseAfter("fieldTypes", r)]
    /\ UNCHANGED <<_migration_config, remote, nameCall, copyFields, polling, export>>

\* one iteration of the loop of _migrate_field_types, r the outcome of
\* map_field_type_analyzer: an error that is not FieldTypeMappingException
\* leaves the loop and migrate_schema
FieldTypeIteration(solr_field_type, r) ==
    /\ _filter_map' = r.st.filter_map
    /\ _tokenizer_map' = r.st.tokenizer_map
    /\ _packages_map' = r.st.packages_map
    /\ _field_types_map' = r.st.field_types_map
    /\ migration' =
          [migration EXCEPT
             !.field_types_solr = @ + 1,
             !.attempts = Append(@, "fieldTypes"),
             !.last = Iteration("fieldTypes", solr_field_type, r),
             !.analyzer = IF r.raised THEN @ ELSE AddAnalyzers(@, r.val),
             !.field_types_os =
                 IF ~r.raised THEN @ + 1
                 ELSE IF LoopCatches("fieldTypes", r)
                         /\ ConfigFlag("map_fields_on_analyzer_failure")
                 THEN @ + 1 ELSE @,
             !.field_types_error =
                 IF LoopCatches("fieldTypes", r)
                    /\ ~ConfigFlag("map_fields_on_analyzer_failure")
                 THEN @ + 1 ELSE @,
             !.field_type_exception_list =
                 IF LoopCatches("fieldTypes", r) THEN Append(@, r.exc) ELSE @,
             !.details =
                 IF ~r.raised THEN @ \o SuccessDetails(solr_field_type)
                 ELSE IF LoopCatches("fieldTypes", r)
                 THEN @ \o ErrorDetails(r.exc) ELSE @,
             !.phase = PhaseAfter("fieldTypes", r)]
    /\ UNCHANGED <<_migration_config, remote, nameCall, copyFields, polling, export>>

MigrateFieldType(solr_field_type, faults) ==
    /\ migration.phase = "fieldTypes"
    /\ Attempted < MaxItems
    /\ migration.field_types_solr < MaxFieldTypes
    /\ FieldTypeIteration(solr_field_type,
                          map_field_type_analyzer(MappingState, solr_field_type, faults))

\* an iteration that records the exception of a field but does not count it
Mut_FieldIteration(solr_field, r) ==
    /\ migration' =
          [migration EXCEPT
             !.field_solr = @ + 1,
             !.attempts = Append(@, "fields"),
             !.last = Iteration("fields", solr_field, r),
             !.properties = IF r.raised THEN @ ELSE SetAttr(@, r.val.name, r.val.attrs),
             !.field_os = IF r.raised THEN @ ELSE @ + 1,
             !.field_exception_list =
                 IF LoopCatches("fields", r) THEN Append(@, r.exc) ELSE @,
             !.phase = PhaseAfter("fields", r)]
    /\ UNCHANGED <<helpers, remote, nameCall, copyFields, polling, export>>

\* one iteration of the loop of _migrate_fields, r the outcome of map_field
FieldIteration(solr_field, r) ==
    /\ migration' =
          [migration EXCEPT
             !.field_solr = @ + 1,
             !.attempts = Append(@, "fields"),
             !.last = Iteration("fields", solr_field, r),
             !.properties = IF r.raised THEN @ ELSE SetAttr(@, r.val.name, r.val.attrs),
             !.field_os = IF r.raised THEN @ ELSE @ + 1,
             !.field_error = IF LoopCatches("fields", r) THEN @ + 1 ELSE @,
             !.field_exception_list =
                 IF LoopCatches("fields", r) THEN Append(@, r.exc) ELSE @,
             !.phase = PhaseAfter("fields", r)]
    /\ UNCHANGED <<helpers, remote, nameCall, copyFields, polling, export>>

MigrateField(solr_field) ==
    /\ migration.phase = "fields"
    /\ Attempted < MaxItems
    /\ FieldIteration(solr_field, map_field(MappingState, migration.analyzer, solr_field))

\* one iteration of the loop of _migrate_dynamic_fields, which catches
\* every Exception
DynamicFieldIteration(solr_dynamic_field, r) ==
    /\ migration' =
          [migration EXCEPT
             !.dynamic_field_solr = @ + 1,
             !.attempts = Append(@, "dynamicFields"),
             !.last = Iteration("dynamicFields", solr_dynamic_field, r),
             !.dynamic_templates = IF r.raised THEN @ ELSE Append(@, r.val),
             !.dynamic_field_os = IF r.raised THEN @ ELSE @ + 1,
             !.dynamic_field_error = IF r.raised THEN @ + 1 ELSE @,
             !.dynamic_field_exception_list =
                 IF LoopCatches("dynamicFields", r) THEN Append(@, r.exc) ELSE @,
             !.phase = PhaseAfter("dynamicFields", r)]
    /\ UNCHANGED <<helpers, remote, nameCall, copyFields, polling, export>>

MigrateDynamicField(solr_dynamic_field) ==
    /\ migration.phase = "dynamicFields"
    /\ Attempted < MaxItems
    /\ DynamicFieldIteration(solr_dynamic_field,
                             map_dynamic_field(MappingState, migration.analyzer,
                                               solr_dynamic_field))

\* one iteration of the loop of _migrate_copy_fields, which catches every
\* Exception; r the outcome of map_copy_field
CopyFieldIteration(solr_copy_field, r) ==
    /\ migration' =
          [migration EXCEPT
             !.copy_field_solr = @ + 1,
             !.attempts = Append(@, "copyFields"),
             !.last = Iteration("copyFields", solr_copy_field, r),
             !.all_fields = r.all_fields,
             !.field_copy_to = r.field_copy_to,
             !.properties =
                 IF r.raised THEN @
                 ELSE SetAttr(SetAttr(@, solr_copy_field.source,
                                      r.all_fields[solr_copy_field.source]),
                              solr_copy_field.dest, r.all_fields[solr_copy_field.dest]),
             !.copy_field_os = IF r.raised THEN @ ELSE @ + 1,
             !.copy_field_error = IF r.raised THEN @ + 1 ELSE @,
             !.copy_field_exception_list =
                 IF LoopCatches("copyFields", r) THEN Append(@, r.exc) ELSE @,
             !.phase = PhaseAfter("copyFields", r)]
    /\ UNCHANGED <<helpers, remote, nameCall, copyFields, polling, export>>

MigrateSchemaCopyField(solr_copy_field) ==
    /\ migration.phase = "copyFields"
    /\ Attempted < MaxItems
    /\ CopyFieldIteration(solr_copy_field,
                          map_copy_field([all_fields |-> migration.all_fields,
                                          field_copy_to |-> migration.field_copy_to],
                                         solr_copy_field))

\* the list of a loop is exhausted: migrate_schema goes on to the next loop,
\* CopyFieldHelper(get_all_fields()) is built before the last one
EndLoop ==
    /\ migration.phase \in { Loops[i] : i \in 1..Len(Loops) }
    /\ migration' =
          [migration EXCEPT
             !.phase = NextPhase(@),
             !.last = [loop |-> "none"],
             !.all_fields = IF NextPhase(migration.phase) = "copyFields"
                            THEN migration.properties ELSE @,
             !.field_copy_to = IF NextPhase(migration.phase) = "copyFields"
                               THEN EmptyMap ELSE @]
    /\ UNCHANGED <<helpers, remote, nameCall, copyFields, polling, export>>

MigrateNext ==
    \/ \E ft \in SchemaFieldTypes, faults \in {NoFaults, FetchFails} :
          MigrateFieldType(ft, faults)
    \/ \E f \in SchemaFields : MigrateField(f)
    \/ \E d \in SchemaDynamicFields : MigrateDynamicField(d)
    \/ \E c \in SchemaCopyFields : MigrateSchemaCopyField(c)
    \/ EndLoop

SpecMigrate == MigrateInit /\ [][MigrateNext]_vars

(***************************************************************************)
(* Claims: orchestration                                                   *)
(***************************************************************************)
Migrating == migration.phase # "off"

Iterated(loop) == Migrating /\ migration.last.loop = loop

\* the exception list the report keeps for a loop
ExceptionList(loop) ==
    CASE loop = "fieldTypes" -> migration.field_type_exception_list
      [] loop = "fields" -> migration.field_exception_list
      [] loop = "dynamicFields" -> migration.dynamic_field_exception_list
      [] OTHER -> migration.copy_field_exception_list

\* the typed error of a loop's category
TypedErrorOf(loop) ==
    CASE loop = "fieldTypes" -> "FieldTypeMappingException"
      [] loop = "fields" -> "FieldMappingException"
      [] loop = "dynamicFields" -> "DynamicFieldMappingException"
      [] OTHER -> "CopyFieldMappingException"

\* items of a loop taken so far
AttemptsOf(loop) == Len(SelectSeq(migration.attempts, LAMBDA a : a = loop))

RaisedTyped(loop) ==
    /\ Iterated(loop)
    /\ migration.last.raised
    /\ migration.last.exc.type = TypedErrorOf(loop)

\* C13: in each loop (field types, fields, dynamic fields, copy fields) an
\* item that raises the category's typed error has that error appended to
\* the category's exception list, and the loop goes on with the items after
\* it: it is still the running loop, nothing was skipped, and the lists hold
\* no more errors than items were attempted.
C13_TypedErrorIsRecordedAndLoopContinues ==
    \A i \in 1..Len(Loops) :
       /\ RaisedTyped(Loops[i]) =>
             /\ ExceptionList(Loops[i]) # <<>>
             /\ ExceptionList(Loops[i])[Len(ExceptionList(Loops[i]))] = migration.last.exc
             /\ migration.phase = Loops[i]
       /\ Migrating => Len(ExceptionList(Loops[i])) <= AttemptsOf(Loops[i])

\* every loop has recorded an error and the last loop has taken a later item
C13_Witness ==
    /\ Migrating
    /\ \A i \in 1..Len(Loops) : ExceptionList(Loops[i]) # <<>>
    /\ migration.copy_field_solr >= 2

\* C14: whatever fails while one field type is mapped reaches the loop of
\* _migrate_field_types as FieldTypeMappingException carrying the name of
\* the field type; no other exception leaves map_field_type_analyzer.
C14_FieldTypeFailureIsTyped ==
    (Iterated("fieldTypes") /\ migration.last.raised) =>
       /\ migration.last.exc.type = "FieldTypeMappingException"
       /\ migration.last.exc.name = migration.last.item["name"]
       /\ migration.phase = "fieldTypes"

\* C15: one switch decides about a field type whose analyzer failed: the
\* type is registered in the binding and counted as mapped, or it is not
\* registered and counted as an error; in both cases the loop records the
\* exception.
C15_MappedCountFollowsBinding ==
    RaisedTyped("fieldTypes") =>
       /\ migration.field_type_exception_list # <<>>
       /\ migration.field_type_exception_list[Len(migration.field_type_exception_list)]
             = migration.last.exc
       /\ IF Has(_field_types_map, migration.last.item["name"])
          THEN /\ migration.field_types_os = migration.last.field_types_os + 1
               /\ migration.field_types_error = migration.last.field_types_error
          ELSE /\ migration.field_types_os = migration.last.field_types_os
               /\ migration.field_types_error = migration.last.field_types_error + 1

\* the loops in which the attempts so far were made are in the order of
\* migrate_schema
AttemptsInLoopOrder ==
    \A i, j \in 1..Len(migration.attempts) :
       i < j => LoopIndex(migration.attempts[i]) <= LoopIndex(migration.attempts[j])

\* the item of the last iteration names a source type without binding
UnboundType ==
    get_field_type(migration.last.field_types_map, migration.last.item["type"]) = None

TargetIndexUnchanged ==
    /\ migration.properties = migration.last.properties
    /\ migration.dynamic_templates = migration.last.dynamic_templates
    /\ migration.analyzer = migration.last.analyzer

\* C16: migrate_schema takes all field types before any field, all fields
\* before any dynamic field and all dynamic fields before any copy field; a
\* field or dynamic field whose source type has no binding fails with
\* FieldMappingException or DynamicFieldMappingException (MAPPING_NOT_FOUND)
\* and adds nothing to the target index.
C16_PhasesInOrderAndUnboundTypeFails ==
    Migrating =>
       /\ AttemptsInLoopOrder
       /\ (Iterated("fields") /\ UnboundType) =>
             /\ migration.last.raised
             /\ migration.last.exc =
                   FieldMappingException(migration.last.item["name"], MAPPING_NOT_FOUND,
                                         migration.last.item["type"])
             /\ TargetIndexUnchanged
       /\ (Iterated("dynamicFields") /\ UnboundType) =>
             /\ migration.last.raised
             /\ migration.last.exc =
                   DynamicFieldMappingException(migration.last.item["name"],
                                                MAPPING_NOT_FOUND,
                                                migration.last.item["type"])
             /\ TargetIndexUnchanged

\* a dynamic field of an unbound type fails after field types were mapped and
\* a field of an unbound type failed
C16_Witness ==
    /\ Iterated("dynamicFields")
    /\ UnboundType
    /\ migration.field_types_os > 0
    /\ migration.field_error > 0
    /\ migration.field_os > 0

(***************************************************************************)
(* Data export (Solr2OSMigrate._export_regular_data).  The source holds    *)
(* its documents in the order of the sort; a cursor mark is the number of  *)
(* documents before it, "*" being 0.  A page request at a cursor gets the  *)
(* next rows documents and the cursor after them.  The source answers the  *)
(* same request the same way: at most one cursor of a run is bad, and its  *)
(* page is unparseable, its request fails, or its upload fails.            *)
(***************************************************************************)
Min(a, b) == IF a <= b THEN a ELSE b

\* data_config and the source: numFound, rows_per_page, max_rows
ExportConfigs ==
    { [total |-> t, rows_per_page |-> r, max_rows |-> m] :
        t \in {0, 700, 1200}, r \in {300, 500}, m \in {1000, 100000} }

\* what the source does at its bad cursor
BadKinds == {"unparseable", "request_error", "put_error"}

\* the cursors a run can stand at
Cursors(config) ==
    { n * config.rows_per_page : n \in 0..4 } \cap 0..config.total

\* page requests of one export the model follows
MaxBatches == 6

\* a loop condition that forgets max_rows
Mut_MorePages(exported_docs, total_docs, max_rows) == exported_docs < total_docs

\* the condition of the while loop
MorePages(exported_docs, total_docs, max_rows) ==
    exported_docs < Min(total_docs, max_rows)

\* the documents of the page at a cursor: docs of the response
PageDocs(cursor_mark) ==
    Min(export.rows_per_page, export.actual - cursor_mark)

\* the answer of the source to the page request at a cursor
ResponseKind(cursor_mark) ==
    IF export.bad.at = cursor_mark THEN export.bad.kind ELSE "ok"

ExportInit ==
    /\ \E config \in ExportConfigs :
          \E actual \in {config.total, config.total - 200} \cap 0..config.total :
             \E bad \in {[at |-> -1, kind |-> "ok"]}
                        \cup [at : Cursors(config), kind : BadKinds] :
                export = [phase |-> "start",
                          numFound |-> config.total,
                          actual |-> actual,
                          rows_per_page |-> config.rows_per_page,
                          max_rows |-> config.max_rows,
                          bad |-> bad,
                          total_docs |-> 0, exported_docs |-> 0, batch_count |-> 0,
                          cursor_mark |-> 0,
                          requests |-> <<>>,
                          objects |-> EmptyMap,
                          data_migration_errors |-> 0,
                          data_migration_docs_exported |-> 0,
                          data_migration_batches |-> 0]
    /\ polling = [op |-> "off"]
    /\ migration = [phase |-> "off"]
    /\ nameCall = [kind |-> "off"]
    /\ copyFields = [phase |-> "off"]
    /\ RemoteOff
    /\ HelpersOff

\* the count query: numFound, or a failed request that export_data records
CountDocuments(ok) ==
    /\ export.phase = "start"
    /\ export' = IF ok
                 THEN [export EXCEPT !.phase = "paging", !.total_docs = export.numFound]
                 ELSE [export EXCEPT !.phase = "failed",
                                     !.data_migration_errors = @ + 1]
    /\ UNCHANGED <<polling, migration, nameCall, copyFields, remote, helpers>>

\* what one request leaves in the history of the run
Request(outcome) ==
    [cursor |-> export.cursor_mark, exported_before |-> export.exported_docs,
     outcome |-> outcome]

\* one iteration of the while loop
ExportBatch ==
    /\ export.phase = "paging"
    /\ MorePages(export.exported_docs, export.total_docs, export.max_rows)
    /\ export.batch_count < MaxBatches
    /\ export' =
          CASE ResponseKind(export.cursor_mark) = "request_error" ->
                  [export EXCEPT !.batch_count = @ + 1,
                                 !.requests = Append(@, Request("request_error")),
                                 !.data_migration_errors = @ + 1,
                                 !.phase = "stats"]
            [] ResponseKind(export.cursor_mark) = "unparseable" ->
                  [export EXCEPT !.batch_count = @ + 1,
                                 !.requests = Append(@, Request("unparseable")),
                                 !.data_migration_errors = @ + 1]
            [] ResponseKind(export.cursor_mark) = "put_error"
               /\ PageDocs(export.cursor_mark) > 0 ->
                  [export EXCEPT !.batch_count = @ + 1,
                                 !.requests = Append(@, Request("put_error")),
                                 !.data_migration_errors = @ + 1,
                                 !.phase = "stats"]
            [] OTHER ->
                  IF PageDocs(export.cursor_mark) <= 0
                  THEN [export EXCEPT !.batch_count = @ + 1,
                                      !.requests = Append(@, Request("empty")),
                                      !.phase = "stats"]
                  ELSE [export EXCEPT
                          !.batch_count = @ + 1,
                          !.requests = Append(@, Request("ok")),
                          !.objects = SetAttr(@, export.batch_count + 1,
                                              PageDocs(export.cursor_mark)),
                          !.exported_docs = @ + PageDocs(export.cursor_mark),
                          !.cursor_mark = @ + PageDocs(export.cursor_mark)]
    /\ UNCHANGED <<polling, migration, nameCall, copyFields, remote, helpers>>

\* statistics that report the documents found as the documents exported
Mut_UpdateStats ==
    /\ \/ export.phase = "stats"
       \/ /\ export.phase = "paging"
          /\ ~MorePages(export.exported_docs, export.total_docs, export.max_rows)
    /\ export' = [export EXCEPT !.phase = "done",
                                !.data_migration_docs_exported = export.total_docs,
                                !.data_migration_batches = export.batch_count]
    /\ UNCHANGED <<polling, migration, nameCall, copyFields, remote, helpers>>

\* the loop is left: update_data_migration_stats
UpdateStats ==
    /\ \/ export.phase = "stats"
       \/ /\ export.phase = "paging"
          /\ ~MorePages(export.exported_docs, export.total_docs, export.max_rows)
    /\ export' = [export EXCEPT !.phase = "done",
                                !.data_migration_docs_exported = export.exported_docs,
                                !.data_migration_batches = export.batch_count]
    /\ UNCHANGED <<polling, migration, nameCall, copyFields, remote, helpers>>

ExportNext ==
    \/ \E ok \in BOOLEAN : CountDocuments(ok)
    \/ ExportBatch
    \/ UpdateStats

SpecExport == ExportInit /\ [][ExportNext]_vars

(***************************************************************************)
(* Claims: data export                                                     *)
(***************************************************************************)
Exporting == export.phase \notin {"off", "start", "failed"}

\* all pages full and parseable: the source holds the documents it counted
\* and has no bad cursor
CleanSource == export.actual = export.numFound /\ export.bad.kind = "ok"

\* C17: no page request is issued once the exported documents have reached
\* min(total, max_rows); with total = 1200, rows_per_page = 500,
\* max_rows = 1000 and full, parseable pages the export makes exactly two
\* page requests and exports 1000 documents.
C17_NoRequestBeyondTheLimit ==
    Exporting =>
       /\ \A i \in 1..Len(export.requests) :
             export.requests[i].exported_before
                < Min(export.total_docs, export.max_rows)
       /\ ( /\ CleanSource
            /\ export.total_docs = 1200
            /\ export.rows_per_page = 500
            /\ export.max_rows = 1000 ) =>
             /\ Len(export.requests) <= 2
             /\ export.phase = "done" =>
                   /\ Len(export.requests) = 2
                   /\ export.exported_docs = 1000
                   /\ export.data_migration_docs_exported = 1000

C17_Witness ==
    /\ export.phase = "done"
    /\ CleanSource
    /\ export.total_docs = 1200
    /\ export.rows_per_page = 500
    /\ export.max_rows = 1000
    /\ Len(export.requests) = 2

\* C18: the documents written never exceed max_rows, whatever total,
\* rows_per_page and max_rows are.
C18_MaxRowsIsAHardCap == Exporting => export.exported_docs <= export.max_rows

\* C19: a page that fails JSON parsing is recorded as one error, is not
\* uploaded, and the next request is made at a different cursor.
C19_UnparseablePageIsSkipped ==
    Exporting =>
       \A i \in 1..Len(export.requests) :
          export.requests[i].outcome = "unparseable" =>
             /\ ~Has(export.objects, i)
             /\ export.data_migration_errors >= 1
             /\ i < Len(export.requests) =>
                   export.requests[i + 1].cursor # export.requests[i].cursor

(***************************************************************************)
(* Specification of the resolution of valueFromFile rules: filters and     *)
(* char filters whose rule carries create_package true, carries it false,  *)
(* or does not carry it, under every setting of the run.                   *)
(***************************************************************************)
DictByName == Dict2("name", <<"dict">>, "dictionary", <<"stop", ".", "txt">>)

PlainByName == Dict2("name", <<"plain">>, "mapping", <<"map", ".", "txt">>)

ValueFileFilters == {SynByClass, DictByName, StopByName}

ValueFileCharFilters == {MapByClass, PlainByName}

\* the remote's answers in this run
ValueFileFaults == {"none", "association_failed"}

ValueFileNext ==
    \/ \E f \in ValueFileFilters, fault \in ValueFileFaults, o \in BOOLEAN :
          MapFilter(f, fault, o)
    \/ \E c \in ValueFileCharFilters, fault \in ValueFileFaults, o \in BOOLEAN :
          MapCharFilter(c, fault, o)

SpecValueFile == Init /\ [][ValueFileNext]_vars

(***************************************************************************)
(* Claims: valueFromFile                                                   *)
(***************************************************************************)
\* the table entry of the definition the observed call mapped
LastEntry ==
    IF last.op = "_map_filter"
    THEN _filter_mapping[_get_filter_name(last.input).val]
    ELSE _char_filter_mapping[_get_filter_name(last.input).val]

\* a value of the form analyzers/{packageId}
IsPackageReference(value) == value # <<>> /\ value[1] = "analyzers/"

\* the lines of a file, trimmed, without blank lines and lines that start
\* with '#' or '|'
ContentLines(filename) ==
    LET trimmed == [i \in 1..Len(SolrFiles[filename]) |-> Strip(SolrFiles[filename][i])]
        content(line) == line # <<>> /\ line[1] \notin {"#", "|"}
    IN SelectSeq(trimmed, content)

CallNames == { last.calls[i].call : i \in 1..Len(last.calls) }

\* the first call of a run that mapped a definition with a valueFromFile
\* rule and returned
ResolvedValueFromFile ==
    /\ last.op \in {"_map_filter", "_map_char_filter"}
    /\ ~last.raised
    /\ last.pre.filter_map = EmptyMap
    /\ last.pre.packages_map = EmptyMap

\* C20: a valueFromFile rule resolves to a package reference, and
\* create_and_associate_package is invoked, if and only if the rule carries
\* the package flag set to true and the run's create_package setting is true;
\* otherwise with expand_files_array the value is the file's content lines;
\* otherwise the value is the empty list and no file is fetched.  A rule whose
\* flag is false never creates a package.
C20_ValueFromFileResolution ==
    ResolvedValueFromFile =>
       \A key \in DOMAIN LastEntry.attrs :
          Has(LastEntry.attrs[key], "valueFromFile") =>
             IF /\ Has(LastEntry.attrs[key], "create_package")
                /\ LastEntry.attrs[key]["create_package"] = TRUE
                /\ last.pre.config["create_package"]
             THEN /\ IsPackageReference(last.val.attrs[key])
                  /\ "describe_packages" \in CallNames
             ELSE /\ "describe_packages" \notin CallNames
                  /\ opensearch_packages = last.pre.pkgs
                  /\ IF last.pre.config["expand_files_array"]
                     THEN last.val.attrs[key] =
                             ListValue(ContentLines(
                                last.input[LastEntry.attrs[key]["valueFromFile"]]))
                     ELSE /\ last.val.attrs[key] = <<"[", "]">>
                          /\ last.calls = <<>>

(***************************************************************************)
(* Claims: termination of status polling                                   *)
(***************************************************************************)
\* the statuses at which a wait neither returns nor raises
NonTerminal(op) ==
    (IF op \in {"_create_package", "_update_package"}
     THEN PackageStatuses ELSE DomainPackageStatuses)
       \ (FailedTerminal(op) \cup {SuccessStatus(op)})

\* C21: a wait polls again for as long as the remote reports a non-terminal
\* status and ends as soon as it reports anything else: after every round
\* the operation is still polling if and only if the round read a
\* non-terminal status, so a remote that stays non-terminal never makes
\* the wait return or fail.
C21_PollsWhileNonTerminal ==
    Polled => (polling.pc = "polling" <=> LastResponse \in NonTerminal(polling.op))

(***************************************************************************)
(* Specification of filter chains with package creation on: every element  *)
(* of a list has a table entry, and the remote may fail while any one      *)
(* element is mapped.  The input of a call is the list with the remote's   *)
(* answers, one per element.                                               *)
(***************************************************************************)
ChainFilters == {SynByClass, SynGraphByName, DictByName}

ChainCharFilters == {MapByClass, PlainByName}

\* the remote's answers while one element is mapped
ChainFaults == {"none", "copy_failed", "head403"}

ChainFaultVectors == [1..MaxFilters -> ChainFaults]

ChainInput(configs, faults) == [configs |-> configs, faults |-> faults]

MapFilterChain(solr_filters, faults, observed) ==
    Commit(map_filters(MappingState, solr_filters, faults), "map_filters",
           ChainInput(solr_filters, faults), observed)

MapCharFilterChain(solr_char_filters, faults, observed) ==
    Commit(map_char_filters(MappingState, solr_char_filters, faults),
           "map_char_filters", ChainInput(solr_char_filters, faults), observed)

ChainNext ==
    \/ \E fs \in ListsOf(ChainFilters), faults \in ChainFaultVectors, o \in BOOLEAN :
          MapFilterChain(fs, faults, o)
    \/ \E cs \in ListsOf(ChainCharFilters), faults \in ChainFaultVectors, o \in BOOLEAN :
          MapCharFilterChain(cs, faults, o)

SpecChain == SharedFileInit /\ [][ChainNext]_vars

(***************************************************************************)
(* Claims: failure in the mapping loop of a chain                          *)
(***************************************************************************)
\* the observed call cut after its first n elements, from the same state
\* and with the same answers of the remote
ChainCall(n) ==
    IF last.op = "map_filters"
    THEN map_filters(last.pre, SubSeq(last.input.configs, 1, n), last.input.faults)
    ELSE map_char_filters(last.pre, SubSeq(last.input.configs, 1, n),
                          last.input.faults)

\* the element at which the mapping loop failed
FailedAt ==
    CHOOSE k \in 1..Len(last.input.configs) :
       /\ ChainCall(k).raised
       /\ \A j \in 1..(k - 1) : ~ChainCall(j).raised

ChainFailed == last.op \in {"map_filters", "map_char_filters"} /\ last.raised

RollbackCalls == {"dissociate_package", "delete_package"}

\* C22: when the mapping loop of map_filters / map_char_filters fails at
\* element k, the call raises the typed filter / char-filter error, nothing
\* is done for an element after k (the call's log and caches are those of
\* the loop up to k), and the packages and cache entries of the elements
\* before k remain: nothing is dissociated, deleted or removed.
C22_ChainFailsFastWithoutRollback ==
    ChainFailed =>
       /\ last.exc.type = TypedError
       /\ last.calls = ChainCall(FailedAt).st.calls
       /\ _filter_map = ChainCall(FailedAt - 1).st.filter_map
       /\ _packages_map = ChainCall(FailedAt - 1).st.packages_map
       /\ \A n \in DOMAIN ChainCall(FailedAt - 1).st.pkgs : Has(opensearch_packages, n)
       /\ \A i \in 1..Len(last.calls) : last.calls[i].call \notin RollbackCalls

(***************************************************************************)
(* Claims: analyzer attachment                                             *)
(***************************************************************************)
Registered(name) == Has(migration.analyzer, name)

\* the analyzer names a mapping refers to
AnalyzerRefs(mapping) ==
    { mapping[k] : k \in DOMAIN mapping \cap {"analyzer", "search_analyzer"} }

\* the attachment rule for a mapping of source type T against the analyzers
\* registered when it was made
ExactAttachment(mapping, T, registered) ==
    /\ Has(mapping, "analyzer") =>
          /\ mapping["analyzer"] \in {T, T \o <<"_index">>}
          /\ mapping["analyzer"] \in registered
    /\ Has(mapping, "search_analyzer") <=> (T \o <<"_query">>) \in registered
    /\ Has(mapping, "search_analyzer") =>
          mapping["search_analyzer"] = T \o <<"_query">>

\* C23: fields and dynamic fields attach analyzers by exact match against
\* the registered analyzers: 'analyzer' is T or T_index and registered,
\* 'search_analyzer' is T_query if and only if T_query is registered; so
\* every analyzer a field mapping or a dynamic template refers to is
\* registered in the target index.
C23_AttachedAnalyzersAreRegistered ==
    Migrating =>
       /\ ( Iterated("fields") /\ ~migration.last.raised ) =>
             ExactAttachment(migration.properties[migration.last.item["name"]],
                             migration.last.item["type"],
                             DOMAIN migration.last.analyzer)
       /\ ( Iterated("dynamicFields") /\ ~migration.last.raised ) =>
             ExactAttachment(
                migration.dynamic_templates[Len(migration.dynamic_templates)].mapping,
                migration.last.item["type"], DOMAIN migration.last.analyzer)
       /\ \A i \in 1..Len(migration.dynamic_templates) :
             \A a \in AnalyzerRefs(migration.dynamic_templates[i].mapping) :
                Registered(a)

(***************************************************************************)
(* Claims: request error during the export                                 *)
(***************************************************************************)
\* the documents of the page objects with keys 1..n
RECURSIVE UploadedDocs(_)
UploadedDocs(n) ==
    IF n = 0 THEN 0
    ELSE UploadedDocs(n - 1) + (IF Has(export.objects, n) THEN export.objects[n] ELSE 0)

RequestFailed ==
    /\ Exporting
    /\ export.requests # <<>>
    /\ export.requests[Len(export.requests)].outcome = "request_error"

\* C24: a page request that fails in the middle of pagination is the last
\* request of the export; it is recorded as one data-migration error, the
\* page objects uploaded before it stay in place, and the final statistics
\* report as exported the sum of the sizes of those pages.
C24_RequestErrorEndsTheExport ==
    Exporting =>
       /\ \A i \in 1..Len(export.requests) :
             export.requests[i].outcome = "request_error" => i = Len(export.requests)
       /\ RequestFailed =>
             /\ export.phase \in {"stats", "done"}
             /\ export.data_migration_errors = 1
             /\ \A i \in 1..(Len(export.requests) - 1) : Has(export.objects, i)
             /\ ~Has(export.objects, Len(export.requests))
             /\ export.exported_docs = UploadedDocs(Len(export.requests))
             /\ export.phase = "done" =>
                   /\ export.data_migration_docs_exported
                         = UploadedDocs(Len(export.requests))
                   /\ export.data_migration_batches = Len(export.requests)

\* two pages uploaded, the third request failed, the statistics are final
C24_Witness ==
    /\ RequestFailed
    /\ export.phase = "done"
    /\ Len(export.requests) = 3
    /\ export.data_migration_docs_exported = 600

(***************************************************************************)
(* Claims: mapping a definition a second time                              *)
(***************************************************************************)
\* the observed call returned a construct that the cache held before the
\* call: its definition was mapped earlier in the run
MappedAgain ==
    /\ last.op \in {"_map_filter", "_map_char_filter"}
    /\ ~last.raised
    /\ Has(last.pre.filter_map, last.val.name)

\* C25: mapping the same filter or char-filter definition a second time is a
\* cache hit: the construct has the name, type and attributes of the first
\* mapping, and the call fetches no file, writes no package file, calls no
\* package operation and adds no cache entry.
C25_SecondMappingIsACacheHit ==
    MappedAgain =>
       /\ last.val.attrs = last.pre.filter_map[last.val.name].attrs
       /\ last.op = "_map_filter" => last.val = last.pre.filter_map[last.val.name]
       /\ last.calls = <<>>
       /\ NothingChanged

(***************************************************************************)
(* Claims: association after the package lifecycle                         *)
(***************************************************************************)
\* C26: whenever create_and_associate_package returns a package id, on the
\* new-package path, the unchanged-content path and the changed-content
\* path alike, the package is ACTIVE for the domain.
C26_ReturnedPackageIsActive ==
    (PkgActed /\ ~last.raised) =>
       /\ last.val = PackageID(last.package_name)
       /\ Active(opensearch_packages, last.package_name)

\* the same on the paths that associate, when the service does not report
\* ASSOCIATION_FAILED
AssociatedPathsAreActive ==
    (PkgActed /\ ~last.raised /\ last.fault # "association_failed"
       /\ ~(last.existed /\ last.digest = "equal")) =>
       Active(opensearch_packages, last.package_name)

(***************************************************************************)
(* Claims: report accounting                                               *)
(***************************************************************************)
\* migrate_schema has left the loop by exhausting its list
Completed(loop) ==
    /\ Migrating
    /\ migration.phase # "aborted"
    /\ migration.phase = "done" \/ LoopIndex(migration.phase) > LoopIndex(loop)

\* the attempted, mapped and error counters of a category
Counters(m, loop) ==
    CASE loop = "fieldTypes" ->
            <<m.field_types_solr, m.field_types_os, m.field_types_error>>
      [] loop = "fields" -> <<m.field_solr, m.field_os, m.field_error>>
      [] loop = "dynamicFields" ->
            <<m.dynamic_field_solr, m.dynamic_field_os, m.dynamic_field_error>>
      [] OTHER -> <<m.copy_field_solr, m.copy_field_os, m.copy_field_error>>

Balanced ==
    \A i \in 1..Len(Loops) :
       Completed(Loops[i]) =>
          /\ Counters(migration, Loops[i])[1]
                = Counters(migration, Loops[i])[2] + Counters(migration, Loops[i])[3]
          /\ Counters(migration, Loops[i])[1] = AttemptsOf(Loops[i])

NeverDecrease ==
    Migrating =>
       \A i \in 1..Len(Loops) : \A c \in 1..3 :
          Counters(migration, Loops[i])[c] <= Counters(migration', Loops[i])[c]

\* C27: after a loop of migrate_schema has completed, the attempted count of
\* its category equals the mapped count plus the error count and equals the
\* number of items of the source list; no counter ever decreases.
C27_ReportAccounting == []Balanced /\ [][NeverDecrease]_vars

\* a completed run with mapped and failed fields and field types
C27_Witness ==
    /\ Migrating
    /\ migration.phase = "done"
    /\ migration.field_os >= 1
    /\ migration.field_error >= 1
    /\ migration.field_types_os >= 1
    /\ migration.field_types_error >= 1

(***************************************************************************)
(* Claims: analyzers of a failing field type                               *)
(***************************************************************************)
\* C28: a field type one of whose analyzer roles fails to map adds none of
\* its analyzers to the target index, also when an earlier role of it was
\* mapped: the registered analyzers are those before the iteration.
C28_FailingFieldTypeAddsNoAnalyzer ==
    (Iterated("fieldTypes") /\ migration.last.raised) =>
       /\ migration.analyzer = migration.last.analyzer
       /\ \A i \in 1..Len(AnalyzerRoles) :
             ~Has(migration.last.analyzer,
                  migration.last.item["name"] \o AnalyzerRoles[i].suffix) =>
                ~Registered(migration.last.item["name"] \o AnalyzerRoles[i].suffix)

\* the index analyzer of the type was mapped, its query analyzer failed
C28_Witness ==
    /\ Iterated("fieldTypes")
    /\ migration.last.raised
    /\ migration.last.item = TextH
    /\ migration.last.exc.type = "FieldTypeMappingException"
    /\ _tokenizer_map # EmptyMap
    /\ ~Registered(<<"text", "_", "h", "_index">>)

(***************************************************************************)
(* Claims: binding of mapped field types                                   *)
(***************************************************************************)
\* the last iteration counted its field type as mapped
CountedAsMapped ==
    /\ Iterated("fieldTypes")
    /\ migration.field_types_os = migration.last.field_types_os + 1

\* C29: a field type that the report counts as mapped has a target data
\* type in the name-to-type binding, so that map_field on a field of that
\* type does not fail with 'mapping not found'; this holds also for a type
\* whose class has no entry in the data-type table.
C29_MappedFieldTypeIsBound ==
    CountedAsMapped =>
       /\ Has(_field_types_map, migration.last.item["name"])
       /\ get_field_type(_field_types_map, migration.last.item["name"]) # None
       /\ ~map_field(MappingState, migration.analyzer,
                     Dict2("name", "probe", "type", migration.last.item["name"])).raised

(***************************************************************************)
(* Claims: one package lifecycle per remote package name                   *)
(***************************************************************************)
\* remote package names for which an earlier mapping of the run completed
\* create_and_associate_package
DrivenBefore == { last.pre.packages_map[k].package_name :
                     k \in DOMAIN last.pre.packages_map }

\* remote package names for which the observed call ran
\* create_and_associate_package
DrivenNow == { last.calls[i].arg : i \in { j \in 1..Len(last.calls) :
                                   last.calls[j].call = "describe_packages" } }

\* C30: within one run create_and_associate_package completes successfully
\* at most once for a remote package name, also when filters and char
\* filters of different kinds or names reference the same dictionary file.
C30_OneLifecyclePerPackageName ==
    (last.op \in {"_map_filter", "_map_char_filter"} /\ ~last.raised) =>
       DrivenNow \cap DrivenBefore = {}

====
